---- MODULE Spec2Model ----
(***************************************************************************)
(* Outbound-calling pipeline: the call scheduler (app/scheduler.py), the   *)
(* SQLite store (app/database.py) and the provider's end-of-call webhook   *)
(* (app/webhook.py), as one state machine.                                 *)
(*                                                                         *)
(* Time is a discrete UTC clock `now`, counted in ticks; TicksPerHour      *)
(* ticks make an hour and DayTicks ticks a calendar day.  Local time is    *)
(* UTC plus the zone's offset (settings.tz_offset).  Every coroutine is    *)
(* cut at its awaits: one action is the code between two suspension        *)
(* points together with the store statement the await executes.  Columns   *)
(* that no code path reads back (updated_at, run_log.created_at,           *)
(* run_log.status/detail) are left out of the rows.                        *)
(***************************************************************************)
EXTENDS Integers, Sequences, FiniteSets, TLC

(* ------------------------------------------------------------------ *)
(* Bounds of the exploration                                           *)
(* ------------------------------------------------------------------ *)
MaxTime == 4
MaxCalls == 3
\* store failures injected into one behaviour
MaxFaults == 2
\* data rows of the candidate CSV
MaxRows == 3

(* ------------------------------------------------------------------ *)
(* Time scale                                                          *)
(* ------------------------------------------------------------------ *)
TicksPerHour == 2
DayTicks == 6

None == -1

(* ------------------------------------------------------------------ *)
(* Strings (Python str): character-level helpers                       *)
(* ------------------------------------------------------------------ *)
CharAt(s, i) == SubSeq(s, i, i)

\* Python `sub in s`
Contains(s, sub) ==
    \E i \in 1..(Len(s) - Len(sub) + 1) : SubSeq(s, i, i + Len(sub) - 1) = sub

LowerLetters == "abcdefghijklmnopqrstuvwxyz"
UpperLetters == "ABCDEFGHIJKLMNOPQRSTUVWXYZ"

UpperChar(c) ==
    IF \E k \in 1..26 : CharAt(LowerLetters, k) = c
    THEN CharAt(UpperLetters, CHOOSE k \in 1..26 : CharAt(LowerLetters, k) = c)
    ELSE c

LowerChar(c) ==
    IF \E k \in 1..26 : CharAt(UpperLetters, k) = c
    THEN CharAt(LowerLetters, CHOOSE k \in 1..26 : CharAt(UpperLetters, k) = c)
    ELSE c

RECURSIVE StrUpper(_)
\* str.upper()
StrUpper(s) ==
    IF Len(s) = 0 THEN "" ELSE UpperChar(CharAt(s, 1)) \o StrUpper(SubSeq(s, 2, Len(s)))

RECURSIVE StrLower(_)
\* str.lower()
StrLower(s) ==
    IF Len(s) = 0 THEN "" ELSE LowerChar(CharAt(s, 1)) \o StrLower(SubSeq(s, 2, Len(s)))

RECURSIVE StrReplace(_, _, _)
\* str.replace(old, new) for a one-character `old`
StrReplace(s, old, new) ==
    IF Len(s) = 0 THEN ""
    ELSE (IF CharAt(s, 1) = old THEN new ELSE CharAt(s, 1))
             \o StrReplace(SubSeq(s, 2, Len(s)), old, new)

IsSpaceChar(c) == c \in {" ", "\t", "\n", "\r"}

RECURSIVE StrLStrip(_)
StrLStrip(s) ==
    IF Len(s) > 0 /\ IsSpaceChar(CharAt(s, 1)) THEN StrLStrip(SubSeq(s, 2, Len(s))) ELSE s

RECURSIVE StrRStrip(_)
StrRStrip(s) ==
    IF Len(s) > 0 /\ IsSpaceChar(CharAt(s, Len(s)))
    THEN StrRStrip(SubSeq(s, 1, Len(s) - 1)) ELSE s

\* str.strip()
StrStrip(s) == StrRStrip(StrLStrip(s))

(* ------------------------------------------------------------------ *)
(* app/models.py                                                       *)
(* ------------------------------------------------------------------ *)
\* enum Disposition, in declaration (= iteration) order
DispositionValues ==
    << "QUALIFIED", "PARTIALLY_QUALIFIED", "NOT_QUALIFIED", "ACTIVE_LOOKING",
       "NOT_LOOKING", "CALL_BACK", "NO_ANSWER", "WRONG_NUMBER", "DNC",
       "VOICEMAIL", "BUSY", "FAILED", "PENDING" >>

Disposition == { DispositionValues[i] : i \in 1..Len(DispositionValues) }

\* the statuses the store and the scheduler treat as still callable
RetryableStatuses == { "PENDING", "NO_ANSWER", "BUSY", "FAILED" }

(* ------------------------------------------------------------------ *)
(* Inputs                                                              *)
(* ------------------------------------------------------------------ *)
RecIds == { "R1", "R2" }
Phones == { "+441", "+442" }
DefaultPhone == "+441"
CallIdNames == << "c1", "c2", "c3", "c4", "c5", "c6" >>
CallIds == { CallIdNames[i] : i \in 1..MaxCalls }

\* app/config.py Settings: the calling rules, with times in ticks
Settings(concurrent, hourly, daily, retries, delay, offset) ==
    [ max_concurrent_calls |-> concurrent,
      max_calls_per_hour   |-> hourly,
      max_calls_per_day    |-> daily,
      max_retries          |-> retries,
      retry_delay          |-> delay,
      calling_window_start |-> 1,
      calling_window_end   |-> 4,
      tz_offset            |-> offset ]

\* the configurations explored: concurrent and sequential placement, each cap
\* as the binding one, every retry ceiling up to the store's literal, and the
\* zone at UTC and one hour ahead of it
SettingsSpace ==
    { Settings(2, 1, 2, 1, 1, 0),
      Settings(1, 2, 1, 0, 1, TicksPerHour),
      Settings(2, 2, 2, 2, 2, 0) }

VARIABLES
    settings,         \* Settings, fixed for the run
    now,              \* the UTC clock
    call_records,     \* table call_records: unique_record_id -> row | NoRow
    run_log,          \* table run_log, in insertion order
    calls_this_hour,  \* CallScheduler._calls_this_hour
    calls_today,      \* CallScheduler._calls_today
    hour_start,       \* CallScheduler._hour_start
    day_start,        \* CallScheduler._day_start (the local date)
    sem,              \* CallScheduler._sem: free slots
    batch,            \* "idle" | "running" | "raised": the run_batch in progress
    stats,            \* the stats dict of the current / last run_batch
    tasks,            \* the _place_single_call coroutines of the batch
    provider_calls,   \* the provider's calls, by order of place_call
    inbox,            \* the end-of-call report in flight to the webhook
    loop,             \* Orchestrator.run_continuous: position, start, ceiling
    files,            \* the candidate CSV, the suppression list, the audit file
    campaign          \* saas_server: the campaign's assistant and calling tasks

vars == << settings, now, call_records, run_log, calls_this_hour, calls_today,
           hour_start, day_start, sem, batch, stats, tasks, provider_calls, inbox,
           loop, files, campaign >>

schedVars == << calls_this_hour, calls_today, hour_start, day_start, sem,
                batch, stats, tasks >>

NoRow == [ exists |-> FALSE ]

Existing == { r \in RecIds : call_records[r].exists }

Min(a, b) == IF a <= b THEN a ELSE b

(* ------------------------------------------------------------------ *)
(* app/database.py                                                     *)
(* ------------------------------------------------------------------ *)
\* INSERT OR IGNORE: a conflicting insert leaves the stored row as it is
upsert_candidate_or_ignore(table, rid, phone) ==
    IF table[rid].exists
    THEN table
    ELSE [table EXCEPT ![rid] =
            [ exists |-> TRUE,
              unique_record_id |-> rid,
              phone_e164 |-> phone,
              vapi_call_id |-> "",
              status |-> "PENDING",
              short_summary |-> "",
              attempt_count |-> 0,
              last_called_at |-> None,
              raw_call_outcome |-> "",
              transcript |-> "",
              recording_url |-> "",
              extracted_location |-> "",
              extracted_availability |-> "",
              created_at |-> 1 + Cardinality({ r \in RecIds : table[r].exists }) ]]

\* INSERT ... ON CONFLICT(unique_record_id) DO UPDATE SET phone_e164
upsert_candidate(table, rid, phone) ==
    IF table[rid].exists
    THEN [table EXCEPT ![rid].phone_e164 = phone]
    ELSE [table EXCEPT ![rid] =
            [ exists |-> TRUE,
              unique_record_id |-> rid,
              phone_e164 |-> phone,
              vapi_call_id |-> "",
              status |-> "PENDING",
              short_summary |-> "",
              attempt_count |-> 0,
              last_called_at |-> None,
              raw_call_outcome |-> "",
              transcript |-> "",
              recording_url |-> "",
              extracted_location |-> "",
              extracted_availability |-> "",
              created_at |-> 1 + Cardinality({ r \in RecIds : table[r].exists }) ]]

\* the literal bound of the pending query ("max_retries + 1" in the comment)
PendingAttemptBound == 3

\* SELECT * FROM call_records ORDER BY created_at ASC
get_all_records ==
    [ i \in 1..Cardinality(Existing) |->
        CHOOSE r \in Existing : call_records[r].created_at = i ]

PendingRow(r) ==
    /\ call_records[r].status \in RetryableStatuses
    /\ call_records[r].attempt_count < PendingAttemptBound

\* the pending query ordered by creation time, newest first
get_pending_records_newest_first(limit) ==
    LET rows == SelectSeq(get_all_records, PendingRow)
        newest == [ i \in 1..Len(rows) |-> rows[Len(rows) + 1 - i] ]
    IN  SubSeq(newest, 1, Min(limit, Len(newest)))

\* SELECT ... WHERE status IN (...) AND attempt_count < 3
\* ORDER BY created_at ASC LIMIT ?
get_pending_records(limit) ==
    LET rows == SelectSeq(get_all_records, PendingRow)
    IN  SubSeq(rows, 1, Min(limit, Len(rows)))

\* SELECT * FROM call_records WHERE vapi_call_id = ?  (the matching rows)
RowsWithCallId(cid) == { r \in Existing : call_records[r].vapi_call_id = cid }

\* mark_call_started without the attempt_count increment
mark_call_started_uncounted(table, rid, cid, at) ==
    IF table[rid].exists
    THEN [table EXCEPT ![rid].vapi_call_id = cid, ![rid].last_called_at = at]
    ELSE table

\* UPDATE call_records SET vapi_call_id, attempt_count + 1, last_called_at
mark_call_started(table, rid, cid, at) ==
    IF table[rid].exists
    THEN [table EXCEPT ![rid].vapi_call_id = cid,
                       ![rid].attempt_count = @ + 1,
                       ![rid].last_called_at = at]
    ELSE table

\* update_call_result counting each result as one more attempt
update_call_result_counted(table, cid, status, summary, outcome, transcript, url, loc, avail) ==
    [ r \in RecIds |->
        IF table[r].exists /\ table[r].vapi_call_id = cid
        THEN [table[r] EXCEPT !.status = status,
                              !.short_summary = summary,
                              !.raw_call_outcome = outcome,
                              !.transcript = transcript,
                              !.recording_url = url,
                              !.extracted_location = loc,
                              !.extracted_availability = avail,
                              !.attempt_count = @ + 1]
        ELSE table[r] ]

\* UPDATE call_records SET status, ... WHERE vapi_call_id = ?
update_call_result(table, cid, status, summary, outcome, transcript, url, loc, avail) ==
    [ r \in RecIds |->
        IF table[r].exists /\ table[r].vapi_call_id = cid
        THEN [table[r] EXCEPT !.status = status,
                              !.short_summary = summary,
                              !.raw_call_outcome = outcome,
                              !.transcript = transcript,
                              !.recording_url = url,
                              !.extracted_location = loc,
                              !.extracted_availability = avail]
        ELSE table[r] ]

\* Text comparison `last_called_at >= since_iso`: last_called_at is the naive
\* UTC isoformat (with microseconds), since_iso the local aware isoformat
\* ("...+01:00").  Different clock digits decide; on equal digits a since_iso
\* that carries microseconds is the longer string (greater), and one without
\* (local midnight) continues with "+", which sorts below ".".
IsoTextGE(last_digits, since_digits, since_has_fraction) ==
    \/ last_digits > since_digits
    \/ last_digits = since_digits /\ ~since_has_fraction

\* SELECT COUNT(*) FROM call_records WHERE last_called_at >= ?
get_calls_in_window(since_digits, since_has_fraction) ==
    Cardinality({ r \in Existing :
        /\ call_records[r].last_called_at # None
        /\ IsoTextGE(call_records[r].last_called_at, since_digits, since_has_fraction) })

\* the audit row written over the record's previous row instead of appended
log_run_event_replacing(log, rid, action, cid) ==
    Append(SelectSeq(log, LAMBDA row : row.unique_record_id # rid),
           [ unique_record_id |-> rid, action |-> action, vapi_call_id |-> cid ])

\* INSERT INTO run_log
log_run_event(log, rid, action, cid) ==
    Append(log, [ unique_record_id |-> rid, action |-> action, vapi_call_id |-> cid ])

(* ------------------------------------------------------------------ *)
(* app/webhook.py: disposition resolution                              *)
(* ------------------------------------------------------------------ *)
\* Python None where an Optional[Disposition] is expected
NoDisposition == "<None>"

\* A structured block or an analysis that is missing, None or the empty dict
Absent == [ present |-> FALSE ]

EmptyBlock ==
    [ present |-> FALSE, disposition |-> "", summary |-> "", location |-> "",
      availability |-> "" ]

\* _ENDED_REASON_MAP: the keys, and the keys mapped to a Disposition
EndedReasonKeys ==
    { "customer-did-not-answer", "customer-busy", "voicemail", "machine-detected",
      "customer-did-not-pick-up", "silence-timed-out",
      "phone-call-provider-closed-websocket", "error", "pipeline-error",
      "customer-ended-call", "assistant-ended-call",
      "assistant-said-end-call-phrase", "max-duration-reached" }

\* the table with every other reason, the normal endings included, read as a
\* failure
EndedReasonMap_else_failed(reason) ==
    CASE reason = "customer-did-not-answer" -> "NO_ANSWER"
      [] reason = "customer-busy" -> "BUSY"
      [] reason = "voicemail" -> "VOICEMAIL"
      [] reason = "machine-detected" -> "VOICEMAIL"
      [] reason = "customer-did-not-pick-up" -> "NO_ANSWER"
      [] reason = "silence-timed-out" -> "NO_ANSWER"
      [] OTHER -> "FAILED"

\* _ENDED_REASON_MAP.get(reason)
EndedReasonMap(reason) ==
    CASE reason = "customer-did-not-answer" -> "NO_ANSWER"
      [] reason = "customer-busy" -> "BUSY"
      [] reason = "voicemail" -> "VOICEMAIL"
      [] reason = "machine-detected" -> "VOICEMAIL"
      [] reason = "customer-did-not-pick-up" -> "NO_ANSWER"
      [] reason = "silence-timed-out" -> "NO_ANSWER"
      [] reason = "phone-call-provider-closed-websocket" -> "FAILED"
      [] reason = "error" -> "FAILED"
      [] reason = "pipeline-error" -> "FAILED"
      [] OTHER -> NoDisposition

\* the block read under the key structuredData alone
StructuredOf_camel_only(analysis) ==
    IF analysis.structuredData.present THEN analysis.structuredData
    ELSE EmptyBlock

\* analysis.get("structuredData") or analysis.get("structured_data") or {}
StructuredOf(analysis) ==
    IF analysis.structuredData.present THEN analysis.structuredData
    ELSE IF analysis.structured_data.present THEN analysis.structured_data
    ELSE EmptyBlock

\* .strip().upper().replace(" ", "_").replace("-", "_")
NormalizeDisposition(raw) ==
    StrReplace(StrReplace(StrUpper(StrStrip(raw)), " ", "_"), "-", "_")

\* for d in Disposition: if d.value in disp_str or disp_str in d.value
FuzzyMatches(disp_str) ==
    { i \in 1..Len(DispositionValues) :
        \/ Contains(disp_str, DispositionValues[i])
        \/ Contains(DispositionValues[i], disp_str) }

_parse_disposition_from_analysis(analysis) ==
    IF ~analysis.present THEN NoDisposition
    ELSE LET disp_str == NormalizeDisposition(StructuredOf(analysis).disposition)
         IN  IF disp_str = "" THEN NoDisposition
             ELSE IF disp_str \in Disposition THEN disp_str
             ELSE IF FuzzyMatches(disp_str) # {}
                  THEN DispositionValues[
                         CHOOSE i \in FuzzyMatches(disp_str) :
                           \A j \in FuzzyMatches(disp_str) : i <= j ]
                  ELSE NoDisposition

AnyKeyword(s, kws) == \E kw \in kws : Contains(s, kw)

\* the heuristic with the interest family consulted before the negation family
_infer_disposition_from_summary_interest_first(summary) ==
    LET s == StrLower(summary)
    IN  IF AnyKeyword(s, { "actively looking", "open to", "interested in",
                           "looking for" })
        THEN "ACTIVE_LOOKING"
        ELSE IF AnyKeyword(s, { "not looking", "not interested", "not open", "declined" })
        THEN "NOT_LOOKING"
        ELSE IF AnyKeyword(s, { "call back", "callback", "busy", "bad time" })
        THEN "CALL_BACK"
        ELSE IF AnyKeyword(s, { "wrong number", "wrong person" })
        THEN "WRONG_NUMBER"
        ELSE IF AnyKeyword(s, { "remove", "do not call", "unsubscribe" })
        THEN "DNC"
        ELSE "NOT_QUALIFIED"

_infer_disposition_from_summary(summary) ==
    LET s == StrLower(summary)
    IN  IF AnyKeyword(s, { "not looking", "not interested", "not open", "declined" })
        THEN "NOT_LOOKING"
        ELSE IF AnyKeyword(s, { "actively looking", "open to", "interested in",
                                "looking for" })
        THEN "ACTIVE_LOOKING"
        ELSE IF AnyKeyword(s, { "call back", "callback", "busy", "bad time" })
        THEN "CALL_BACK"
        ELSE IF AnyKeyword(s, { "wrong number", "wrong person" })
        THEN "WRONG_NUMBER"
        ELSE IF AnyKeyword(s, { "remove", "do not call", "unsubscribe" })
        THEN "DNC"
        ELSE "NOT_QUALIFIED"

\* the extraction with the top-level summary preferred to the structured one
_extract_analysis_fields_top_first(analysis) ==
    IF ~analysis.present
    THEN [ summary |-> "", location |-> "", availability |-> "" ]
    ELSE LET structured == StructuredOf(analysis)
         IN  [ summary |-> IF analysis.summary # "" THEN analysis.summary
                           ELSE structured.summary,
               location |-> structured.location,
               availability |-> structured.availability ]

\* the dict's .get(key, "") for the three keys ({} when there is no analysis)
_extract_analysis_fields(analysis) ==
    IF ~analysis.present
    THEN [ summary |-> "", location |-> "", availability |-> "" ]
    ELSE LET structured == StructuredOf(analysis)
         IN  [ summary |-> IF structured.summary # "" THEN structured.summary
                           ELSE analysis.summary,
               location |-> structured.location,
               availability |-> structured.availability ]

\* the cascade with the ended-reason table consulted before the analysis
ResolveDisposition_reason_first(ended_reason, analysis) ==
    LET parsed == _parse_disposition_from_analysis(analysis)
        mapped == EndedReasonMap(ended_reason)
    IN  IF mapped # NoDisposition THEN mapped
        ELSE IF parsed # NoDisposition THEN parsed
        ELSE _infer_disposition_from_summary(_extract_analysis_fields(analysis).summary)

\* _handle_end_of_call, "Determine disposition"
ResolveDisposition(ended_reason, analysis) ==
    LET parsed == _parse_disposition_from_analysis(analysis)
        mapped == EndedReasonMap(ended_reason)
    IN  IF parsed # NoDisposition THEN parsed
        ELSE IF mapped # NoDisposition THEN mapped
        ELSE _infer_disposition_from_summary(_extract_analysis_fields(analysis).summary)

\* _handle_end_of_call, "Build summary"
BuildSummary(ended_reason, analysis) ==
    LET short_summary == _extract_analysis_fields(analysis).summary
    IN  IF short_summary = "" /\ ended_reason # ""
        THEN "Call ended: " \o ended_reason
        ELSE short_summary

(* ------------------------------------------------------------------ *)
(* app/scheduler.py: CallScheduler                                     *)
(* ------------------------------------------------------------------ *)
\* the clock digits of datetime.now(self._tz)
LocalDigits(t) == t + settings.tz_offset
LocalDate(t) == LocalDigits(t) \div DayTicks
LocalTimeOfDay(t) == LocalDigits(t) % DayTicks

\* the window test with the closing time excluded
InWindowAt_before_end(t) ==
    /\ settings.calling_window_start <= LocalTimeOfDay(t)
    /\ LocalTimeOfDay(t) < settings.calling_window_end

\* start <= now <= end on the local time of day
InWindowAt(t) ==
    /\ settings.calling_window_start <= LocalTimeOfDay(t)
    /\ LocalTimeOfDay(t) <= settings.calling_window_end

_in_calling_window == InWindowAt(now)

\* _retry_eligible with the boundary instant excluded
_retry_eligible_strict(record) ==
    IF record.attempt_count = 0 THEN TRUE
    ELSE IF record.attempt_count > settings.max_retries THEN FALSE
    ELSE IF record.last_called_at = None THEN TRUE
    ELSE now - record.last_called_at > settings.retry_delay

_retry_eligible(record) ==
    IF record.attempt_count = 0 THEN TRUE
    ELSE IF record.attempt_count > settings.max_retries THEN FALSE
    ELSE IF record.last_called_at = None THEN TRUE
    ELSE now - record.last_called_at >= settings.retry_delay

\* _refresh_counters: the four fields after the refresh
_refresh_counters ==
    LET hour_rolled == now - hour_start >= TicksPerHour
        day_rolled == LocalDate(now) # day_start
    IN  [ hour_start |-> IF hour_rolled THEN now ELSE hour_start,
          calls_this_hour |->
              IF hour_rolled THEN 0
              ELSE get_calls_in_window(LocalDigits(now - TicksPerHour), TRUE),
          day_start |-> IF day_rolled THEN LocalDate(now) ELSE day_start,
          calls_today |->
              IF day_rolled THEN 0
              ELSE get_calls_in_window(LocalDate(now) * DayTicks, FALSE) ]

\* the pre-filter with the retry delay but without the retry ceiling
PreFilter_no_ceiling(rid, counters) ==
    IF counters.calls_today >= settings.max_calls_per_day THEN "skipped_throttle"
    ELSE IF counters.calls_this_hour >= settings.max_calls_per_hour THEN "skipped_throttle"
    ELSE IF ~_in_calling_window THEN "skipped_window"
    ELSE IF /\ call_records[rid].attempt_count # 0
            /\ call_records[rid].last_called_at # None
            /\ now - call_records[rid].last_called_at < settings.retry_delay
         THEN "skipped_throttle"
    ELSE "task"

\* run_batch, the pre-filter of one fetched record (the counters are those
\* just refreshed: nothing advances them inside the loop)
PreFilter(rid, counters) ==
    IF counters.calls_today >= settings.max_calls_per_day THEN "skipped_throttle"
    ELSE IF counters.calls_this_hour >= settings.max_calls_per_hour THEN "skipped_throttle"
    ELSE IF ~_in_calling_window THEN "skipped_window"
    ELSE IF ~_retry_eligible(call_records[rid]) THEN "skipped_throttle"
    ELSE "task"

ZeroStats == [ placed |-> 0, skipped_window |-> 0, skipped_throttle |-> 0, errors |-> 0 ]

\* every record the pre-filter skipped counted under each skip counter
CountVerdict_all(records, counters, verdict) ==
    Cardinality({ i \in 1..Len(records) : PreFilter(records[i], counters) # "task" })

CountVerdict(records, counters, verdict) ==
    Cardinality({ i \in 1..Len(records) : PreFilter(records[i], counters) = verdict })

NewTask(rid) == [ rid |-> rid, pc |-> "queued", call |-> 0, outcome |-> "" ]

RECURSIVE TasksFor(_, _)
TasksFor(records, counters) ==
    IF records = << >> THEN << >>
    ELSE (IF PreFilter(Head(records), counters) = "task"
          THEN << NewTask(Head(records)) >> ELSE << >>)
         \o TasksFor(Tail(records), counters)

AllTasksDone == \A i \in 1..Len(tasks) : tasks[i].pc = "done"

\* run_batch is entered and left by its caller: run_calls (SchedulerStep) or the
\* loop of run_continuous, whose position the two steps move.
\* run_batch up to asyncio.gather (skipped when no task was created).  No
\* placement runs while the scheduler is between batches, so nothing writes
\* last_called_at or attempt_count during the awaits of the refresh and the
\* fetch; a status written by the webhook in between is the one the fetch
\* reads, as if the event had been handled before the batch began.
BatchStart ==
    /\ batch = "idle"
    /\ LET counters == _refresh_counters
           records == get_pending_records(settings.max_calls_per_day)
           created == TasksFor(records, counters)
       IN  /\ Len(provider_calls) + Len(created) <= MaxCalls
           /\ hour_start' = counters.hour_start
           /\ calls_this_hour' = counters.calls_this_hour
           /\ day_start' = counters.day_start
           /\ calls_today' = counters.calls_today
           /\ stats' = [ ZeroStats EXCEPT
                 !.skipped_window = CountVerdict(records, counters, "skipped_window"),
                 !.skipped_throttle = CountVerdict(records, counters, "skipped_throttle") ]
           /\ tasks' = created
           /\ batch' = "running"
    /\ UNCHANGED << settings, files, campaign, inbox, now, call_records, run_log, sem, provider_calls >>

\* the hourly re-check under the semaphore
HourlyBudgetLeft == calls_this_hour < settings.max_calls_per_hour

\* the tasks gather started run on until they finish, also after one of them
\* raised out of run_batch (gather does not cancel the others)
TasksLive == batch \in {"running", "raised"}

\* entering the limiter without waiting for a free slot
TaskAcquire_unguarded(i) ==
    /\ TasksLive
    /\ tasks[i].pc = "queued"
    /\ \A j \in 1..(i - 1) : tasks[j].pc # "queued"
    /\ IF ~_in_calling_window
       THEN /\ stats' = [stats EXCEPT !.skipped_window = @ + 1]
            /\ tasks' = [tasks EXCEPT ![i].pc = "done", ![i].outcome = "skipped_window"]
            /\ sem' = sem
       ELSE IF ~HourlyBudgetLeft
       THEN /\ stats' = [stats EXCEPT !.skipped_throttle = @ + 1]
            /\ tasks' = [tasks EXCEPT ![i].pc = "done", ![i].outcome = "skipped_throttle"]
            /\ sem' = sem
       ELSE /\ stats' = stats
            /\ tasks' = [tasks EXCEPT ![i].pc = "recheck"]
            /\ sem' = sem - 1
    /\ UNCHANGED << settings, files, campaign, loop, inbox, now, call_records, run_log, calls_this_hour, calls_today,
                    hour_start, day_start, batch, provider_calls >>

\* _place_single_call: `async with self._sem`, then the window and hourly
\* re-checks.  asyncio wakes the waiters of a Semaphore first come, first served.
TaskAcquire(i) ==
    /\ TasksLive
    /\ tasks[i].pc = "queued"
    /\ \A j \in 1..(i - 1) : tasks[j].pc # "queued"
    /\ sem > 0
    /\ IF ~_in_calling_window
       THEN /\ stats' = [stats EXCEPT !.skipped_window = @ + 1]
            /\ tasks' = [tasks EXCEPT ![i].pc = "done", ![i].outcome = "skipped_window"]
            /\ sem' = sem
       ELSE IF ~HourlyBudgetLeft
       THEN /\ stats' = [stats EXCEPT !.skipped_throttle = @ + 1]
            /\ tasks' = [tasks EXCEPT ![i].pc = "done", ![i].outcome = "skipped_throttle"]
            /\ sem' = sem
       ELSE /\ stats' = stats
            /\ tasks' = [tasks EXCEPT ![i].pc = "recheck"]
            /\ sem' = sem - 1
    /\ UNCHANGED << settings, files, campaign, loop, inbox, now, call_records, run_log, calls_this_hour, calls_today,
                    hour_start, day_start, batch, provider_calls >>

\* the idempotency check on the re-fetched row
StillCallable(fresh) == ~fresh.exists \/ fresh.status \in RetryableStatuses

\* the idempotency check counting an abandoned placement as a throttle skip
TaskRecheck_counted(i) ==
    /\ TasksLive
    /\ tasks[i].pc = "recheck"
    /\ IF StillCallable(call_records[tasks[i].rid])
       THEN /\ provider_calls' = Append(provider_calls,
                   [ rid |-> tasks[i].rid, in_window |-> _in_calling_window,
                     state |-> "requested", started_at |-> None ])
            /\ tasks' = [tasks EXCEPT ![i].pc = "calling",
                                      ![i].call = Len(provider_calls) + 1]
            /\ sem' = sem
            /\ stats' = stats
       ELSE /\ provider_calls' = provider_calls
            /\ tasks' = [tasks EXCEPT ![i].pc = "done", ![i].outcome = "already_resolved"]
            /\ sem' = sem + 1
            /\ stats' = [stats EXCEPT !.skipped_throttle = @ + 1]
    /\ UNCHANGED << settings, files, campaign, loop, inbox, now, call_records, run_log, calls_this_hour, calls_today,
                    hour_start, day_start, batch >>

\* get_record_by_id returns; the status check; vapi.place_call is invoked
TaskRecheck(i) ==
    /\ TasksLive
    /\ tasks[i].pc = "recheck"
    /\ IF StillCallable(call_records[tasks[i].rid])
       THEN /\ provider_calls' = Append(provider_calls,
                   [ rid |-> tasks[i].rid, in_window |-> _in_calling_window,
                     state |-> "requested", started_at |-> None ])
            /\ tasks' = [tasks EXCEPT ![i].pc = "calling",
                                      ![i].call = Len(provider_calls) + 1]
            /\ sem' = sem
       ELSE /\ provider_calls' = provider_calls
            /\ tasks' = [tasks EXCEPT ![i].pc = "done", ![i].outcome = "already_resolved"]
            /\ sem' = sem + 1
    /\ UNCHANGED << settings, files, campaign, loop, inbox, now, call_records, run_log, calls_this_hour, calls_today,
                    hour_start, day_start, batch, stats >>

\* place_call returns the provider's call object
PlaceCallReturns(i) ==
    /\ TasksLive
    /\ tasks[i].pc = "calling"
    /\ provider_calls' = [provider_calls EXCEPT ![tasks[i].call].state = "accepted"]
    /\ tasks' = [tasks EXCEPT ![i].pc = "accepted"]
    /\ UNCHANGED << settings, files, campaign, loop, inbox, now, call_records, run_log, calls_this_hour, calls_today,
                    hour_start, day_start, sem, batch, stats >>

\* await db.mark_call_started(record.unique_record_id, vapi_call_id)
TaskMarkStarted(i) ==
    /\ TasksLive
    /\ tasks[i].pc = "accepted"
    /\ call_records' = mark_call_started(call_records, tasks[i].rid,
                                         CallIdNames[tasks[i].call], now)
    /\ provider_calls' = [provider_calls EXCEPT ![tasks[i].call].state = "started",
                                                ![tasks[i].call].started_at = now]
    /\ tasks' = [tasks EXCEPT ![i].pc = "marked"]
    /\ UNCHANGED << settings, files, campaign, loop, inbox, now, run_log, calls_this_hour, calls_today, hour_start,
                    day_start, sem, batch, stats >>

\* the except branch counting the attempt against the record
PlaceCallRaises_counted(i) ==
    /\ TasksLive
    /\ tasks[i].pc = "calling"
    /\ provider_calls' = [provider_calls EXCEPT ![tasks[i].call].state = "failed"]
    /\ call_records' = [call_records EXCEPT ![tasks[i].rid].attempt_count = @ + 1]
    /\ run_log' = log_run_event(run_log, tasks[i].rid, "call_error", "")
    /\ stats' = [stats EXCEPT !.errors = @ + 1]
    /\ tasks' = [tasks EXCEPT ![i].pc = "done", ![i].outcome = "error"]
    /\ sem' = sem + 1
    /\ UNCHANGED << settings, files, campaign, loop, inbox, now, calls_this_hour, calls_today,
                    hour_start, day_start, batch >>

\* place_call raises (transport / HTTP failure): the except branch
PlaceCallRaises(i) ==
    /\ TasksLive
    /\ tasks[i].pc = "calling"
    /\ provider_calls' = [provider_calls EXCEPT ![tasks[i].call].state = "failed"]
    /\ run_log' = log_run_event(run_log, tasks[i].rid, "call_error", "")
    /\ stats' = [stats EXCEPT !.errors = @ + 1]
    /\ tasks' = [tasks EXCEPT ![i].pc = "done", ![i].outcome = "error"]
    /\ sem' = sem + 1
    /\ UNCHANGED << settings, files, campaign, loop, inbox, now, call_records, calls_this_hour, calls_today,
                    hour_start, day_start, batch >>

\* log_run_event("call_placed"), then the in-memory counters and stats
TaskLogPlaced(i) ==
    /\ TasksLive
    /\ tasks[i].pc = "marked"
    /\ run_log' = log_run_event(run_log, tasks[i].rid, "call_placed",
                                CallIdNames[tasks[i].call])
    /\ calls_this_hour' = calls_this_hour + 1
    /\ calls_today' = calls_today + 1
    /\ stats' = [stats EXCEPT !.placed = @ + 1]
    /\ tasks' = [tasks EXCEPT ![i].pc = "pacing", ![i].outcome = "placed"]
    /\ UNCHANGED << settings, files, campaign, loop, inbox, now, call_records, hour_start, day_start, sem, batch,
                    provider_calls >>

\* asyncio.sleep(2) is over; the semaphore is released
TaskPaced(i) ==
    /\ TasksLive
    /\ tasks[i].pc = "pacing"
    /\ tasks' = [tasks EXCEPT ![i].pc = "done"]
    /\ sem' = sem + 1
    /\ UNCHANGED << settings, files, campaign, loop, inbox, now, call_records, run_log, calls_this_hour, calls_today,
                    hour_start, day_start, batch, stats, provider_calls >>

\* asyncio.gather has every result: run_batch returns stats to its caller (the
\* state with batch = "running" and every task done holds the returned dict)
BatchReturn ==
    /\ batch = "running"
    /\ AllTasksDone
    /\ batch' = "idle"
    /\ tasks' = << >>
    /\ stats' = ZeroStats
    /\ UNCHANGED << settings, files, campaign, inbox, now, call_records, run_log, calls_this_hour, calls_today,
                    hour_start, day_start, sem, provider_calls >>

(* ------------------------------------------------------------------ *)
(* app/scheduler.py: a store call of a placement raises                *)
(* ------------------------------------------------------------------ *)
\* the awaits on the store inside the try block: get_record_by_id,
\* mark_call_started, log_run_event("call_placed")
StoreAwaits == { "recheck", "accepted", "marked" }

CallErrors == Cardinality({ k \in 1..Len(run_log) : run_log[k].action = "call_error" })

\* the store call raises; `except Exception` catches it, the call_error event is
\* written and the failure is counted under errors
StoreFailureCaught(i) ==
    /\ TasksLive
    /\ CallErrors < MaxFaults
    /\ tasks[i].pc \in StoreAwaits
    /\ run_log' = log_run_event(run_log, tasks[i].rid, "call_error", "")
    /\ stats' = [stats EXCEPT !.errors = @ + 1]
    /\ tasks' = [tasks EXCEPT ![i].pc = "done", ![i].outcome = "store_error"]
    /\ sem' = sem + 1
    /\ UNCHANGED << settings, files, campaign, loop, inbox, now, call_records, calls_this_hour, calls_today,
                    hour_start, day_start, batch, provider_calls >>

\* the store call raises and the log_run_event of the except branch raises too:
\* the exception leaves _place_single_call, gather and run_batch
StoreFailureRaised(i) ==
    /\ TasksLive
    /\ tasks[i].pc \in StoreAwaits
    /\ batch' = "raised"
    /\ tasks' = [tasks EXCEPT ![i].pc = "done", ![i].outcome = "raised"]
    /\ sem' = sem + 1
    /\ UNCHANGED << settings, files, campaign, loop, inbox, now, call_records, run_log, calls_this_hour, calls_today,
                    hour_start, day_start, stats, provider_calls >>

(* ------------------------------------------------------------------ *)
(* End-of-call events the provider delivers                            *)
(* ------------------------------------------------------------------ *)
Block(disposition, summary, location, availability) ==
    [ present |-> TRUE, disposition |-> disposition, summary |-> summary,
      location |-> location, availability |-> availability ]

Analysis(structuredData, structured_data, summary) ==
    [ present |-> TRUE, structuredData |-> structuredData,
      structured_data |-> structured_data, summary |-> summary ]

Event(cid, meta, reason, analysis) ==
    [ call_id |-> cid, metadata_record_id |-> meta, endedReason |-> reason,
      transcript |-> "", recordingUrl |-> "", analysis |-> analysis ]

\* no report in flight (as a payload: one without call id)
NoEvent == Event("", "", "", Absent)

\* what a report says: an unanswered call, a completed screening
CoreReports ==
    { << "customer-did-not-answer", Absent >>,
      << "customer-ended-call",
         Analysis(Block("QUALIFIED", "good fit", "", ""), Absent, "") >> }

\* reports whose analysis carries a structured disposition string: lower case
\* against a mapped ended-reason, a hyphen under the key structured_data with a
\* summary the heuristic would read, a space, padding, an unknown word, "pending",
\* and both keys at once
RichReports ==
    { << "customer-did-not-answer",
         Analysis(Block("active_looking", "", "", ""), Absent, "") >>,
      << "customer-ended-call",
         Analysis(Absent, Block("Not-Qualified", "", "", ""), "call back later") >>,
      << "voicemail",
         Analysis(Block("not looking", "declined", "", ""), Absent, "") >>,
      << "customer-busy",
         Analysis(Block(" dnc ", "", "", ""), Absent, "") >>,
      << "error",
         Analysis(Block("maybe", "", "", ""), Absent, "") >>,
      << "customer-ended-call",
         Analysis(Block("pending", "", "", ""), Absent, "") >>,
      << "silence-timed-out",
         Analysis(Block("DNC", "", "", ""), Block("QUALIFIED", "", "", ""), "") >> }

\* every key of the ended-reason table, no reason, and a reason not in the table
ResolverReasons == EndedReasonKeys \cup { "", "twilio-failed" }

\* analyses for the cascade: none, an empty one, summaries that meet several
\* keyword families, one family in capitals, or none, and structured blocks that
\* disagree with their summary, resolve to nothing, or carry every field; one
\* block carried under either key beside a top-level summary, and disposition
\* strings that are near misses of NOT_QUALIFIED and NOT_LOOKING
ResolverAnalyses ==
    { Absent,
      Analysis(Absent, Absent, ""),
      Analysis(Absent, Absent, "Candidate said they are not looking for new roles"),
      Analysis(Absent, Absent, "open to offers, call back later"),
      Analysis(Absent, Absent, "busy now, wrong number"),
      Analysis(Absent, Absent, "wrong person, remove"),
      Analysis(Absent, Absent, "Please REMOVE me"),
      Analysis(Absent, Absent, "spoke about the weather"),
      Analysis(Block("ACTIVE_LOOKING", "not interested really", "", ""), Absent, ""),
      Analysis(Block("maybe", "", "", ""), Absent, "declined politely"),
      Analysis(Block("QUALIFIED", "good fit", "Leeds", "now"), Absent, ""),
      Analysis(Block("Not-Qualified", "no licence", "Hull", "next month"), Absent,
               "spoke briefly"),
      Analysis(Absent, Block("Not-Qualified", "no licence", "Hull", "next month"),
               "spoke briefly"),
      Analysis(Block("not qualified.", "", "", ""), Absent, ""),
      Analysis(Block("not looking anymore", "", "", ""), Absent, "") }

ResolverReports == ResolverReasons \X ResolverAnalyses

\* the calls the provider took on
LiveCalls ==
    { c \in 1..Len(provider_calls) : provider_calls[c].state \in {"accepted", "started"} }

\* the reports the provider sends for the calls it took on, with the metadata of
\* the call echoed
CoreEvents ==
    { Event(CallIdNames[c], provider_calls[c].rid, rep[1], rep[2]) :
        c \in LiveCalls, rep \in CoreReports }

RichEvents ==
    { Event(CallIdNames[c], provider_calls[c].rid, rep[1], rep[2]) :
        c \in LiveCalls, rep \in RichReports }

ResolverEvents ==
    { Event(CallIdNames[c], provider_calls[c].rid, rep[1], rep[2]) :
        c \in LiveCalls, rep \in ResolverReports }

\* reports that belong to no call of this store: without call id (with and
\* without metadata naming a record), and with a call id the store never saw
\* and metadata that is missing or names no record
StrayEvents ==
    { Event("", "R1", "customer-did-not-answer", Absent),
      Event("", "", "customer-ended-call",
            Analysis(Block("QUALIFIED", "good fit", "", ""), Absent, "")),
      Event("c0", "", "customer-did-not-answer", Absent),
      Event("c0", "R9", "customer-ended-call",
            Analysis(Block("QUALIFIED", "good fit", "", ""), Absent, "")) }

(* ------------------------------------------------------------------ *)
(* app/webhook.py: the end-of-call handler                             *)
(* ------------------------------------------------------------------ *)
\* get_record_by_call_id, then the metadata fallback get_record_by_id
RecordFound(p) ==
    \/ RowsWithCallId(p.call_id) # {}
    \/ p.metadata_record_id # "" /\ p.metadata_record_id \in Existing

\* what _handle_end_of_call derives from the ended-reason and the analysis
ReportFields(ended_reason, analysis) ==
    [ status |-> ResolveDisposition(ended_reason, analysis),
      short_summary |-> BuildSummary(ended_reason, analysis),
      raw_call_outcome |-> ended_reason,
      location |-> _extract_analysis_fields(analysis).location,
      availability |-> _extract_analysis_fields(analysis).availability ]

\* ReportFields of the reports delivered while the scheduler runs, evaluated
\* once
Reports == CoreReports \cup RichReports
ResolvedReports == [ rep \in Reports |-> ReportFields(rep[1], rep[2]) ]

\* the result written to the record the look-ups found, whatever call id the
\* record holds now
EndOfCallUpdate_by_record(table, p) ==
    LET f == ReportFields(p.endedReason, p.analysis)
        rid == IF RowsWithCallId(p.call_id) # {}
               THEN CHOOSE r \in RowsWithCallId(p.call_id) : TRUE
               ELSE p.metadata_record_id
    IN  IF rid \in Existing
        THEN [table EXCEPT ![rid].status = f.status,
                           ![rid].short_summary = f.short_summary,
                           ![rid].raw_call_outcome = f.raw_call_outcome,
                           ![rid].extracted_location = f.location,
                           ![rid].extracted_availability = f.availability]
        ELSE table

\* the arguments _handle_end_of_call passes to update_call_result
EndOfCallUpdate(table, p) ==
    LET rep == << p.endedReason, p.analysis >>
        f == IF rep \in Reports THEN ResolvedReports[rep]
             ELSE ReportFields(rep[1], rep[2])
    IN  update_call_result(table, p.call_id, f.status, f.short_summary,
                           f.raw_call_outcome, p.transcript, p.recordingUrl,
                           f.location, f.availability)

\* _handle_end_of_call.  An event without call id, or one that resolves to no
\* record, is dropped.  The look-ups only read and rows are never deleted, so
\* the coroutine acts as its single UPDATE at the instant that statement runs:
\* an event whose call id stopped matching between look-up and UPDATE updates
\* no row, which is what dropping it does.
HandleEndOfCall(p) ==
    /\ p.call_id # ""
    /\ RecordFound(p)
    /\ call_records' = EndOfCallUpdate(call_records, p)
    /\ UNCHANGED << settings, files, campaign, loop, inbox, now, run_log, schedVars, provider_calls >>

\* the provider posts the end-of-call report of a call it took on; the payload
\* is in flight until the route has answered
ReportSent(p) ==
    /\ inbox = NoEvent
    /\ inbox' = p
    /\ UNCHANGED << settings, files, campaign, loop, now, call_records, run_log, schedVars, provider_calls >>

\* the route writing to the record named by the metadata when the call id is
\* missing or matches nothing
vapi_webhook_by_metadata ==
    /\ inbox # NoEvent
    /\ call_records' =
          IF inbox.call_id # "" /\ RowsWithCallId(inbox.call_id) # {}
          THEN EndOfCallUpdate(call_records, inbox)
          ELSE IF inbox.metadata_record_id \in Existing
          THEN [call_records EXCEPT ![inbox.metadata_record_id].status =
                   ResolvedReports[<< inbox.endedReason, inbox.analysis >>].status]
          ELSE call_records
    /\ inbox' = NoEvent
    /\ UNCHANGED << settings, files, campaign, loop, now, run_log, schedVars, provider_calls >>

\* POST /webhook/vapi with an end-of-call-report: _handle_end_of_call runs, on a
\* payload it drops as well, and the route answers 200
vapi_webhook ==
    /\ inbox # NoEvent
    /\ call_records' = IF inbox.call_id # "" /\ RecordFound(inbox)
                       THEN EndOfCallUpdate(call_records, inbox)
                       ELSE call_records
    /\ inbox' = NoEvent
    /\ UNCHANGED << settings, files, campaign, loop, now, run_log, schedVars, provider_calls >>

\* hmac.new(secret, body, sha256).hexdigest(), kept as the key and the body it
\* is computed from: two digests are equal when both are
HmacSha256(secret, body) == [ present |-> TRUE, key |-> secret, body |-> body ]

\* a request: the payload as its body, and the x-vapi-signature header (Absent
\* when the request has none)
Signed(p, header) ==
    [ call_id |-> p.call_id, metadata_record_id |-> p.metadata_record_id,
      endedReason |-> p.endedReason, transcript |-> p.transcript,
      recordingUrl |-> p.recordingUrl, analysis |-> p.analysis,
      x_vapi_signature |-> header ]

\* json.loads(body)
PayloadOf(request) ==
    Event(request.call_id, request.metadata_record_id, request.endedReason,
          request.analysis)

\* the requests that can reach the route for the calls the provider took on:
\* signed with the configured secret, signed with another key, carrying the
\* signature of another body, and without the header
SignedRequests ==
    UNION { { Signed(p, HmacSha256(settings.webhook_secret, p)),
              Signed(p, HmacSha256("guess", p)),
              Signed(p, HmacSha256(settings.webhook_secret, NoEvent)),
              Signed(p, Absent) } : p \in CoreEvents }

\* POST /webhook/vapi with the signature verification: a request is refused
\* with 401 when a secret is configured, the header is there and the digests
\* differ; every other request goes on to _handle_end_of_call
vapi_webhook_with_secret ==
    /\ inbox # NoEvent
    /\ LET payload == PayloadOf(inbox)
           expected == HmacSha256(settings.webhook_secret, payload)
           rejected == /\ settings.webhook_secret # ""
                       /\ settings.webhook_secret # "change_me"
                       /\ inbox.x_vapi_signature # Absent
                       /\ expected # inbox.x_vapi_signature
       IN  call_records' = IF ~rejected /\ payload.call_id # "" /\ RecordFound(payload)
                           THEN EndOfCallUpdate(call_records, payload)
                           ELSE call_records
    /\ inbox' = NoEvent
    /\ UNCHANGED << settings, files, campaign, loop, now, run_log, schedVars, provider_calls >>

(* ------------------------------------------------------------------ *)
(* app/phone_utils.py                                                  *)
(* ------------------------------------------------------------------ *)
\* str.isdigit()
IsDigits(s) == Len(s) > 0 /\ \A i \in 1..Len(s) : Contains("0123456789", CharAt(s, i))

\* phonenumbers.parse(cleaned, "GB"), restricted to GB numbers: the national
\* significant number, "" where the library raises or the number is foreign.
\* Spaces are skipped; "+44" or one national "0" is the prefix.
ParseGB(cleaned) ==
    LET compact == StrReplace(cleaned, " ", "")
    IN  IF Len(compact) > 3 /\ SubSeq(compact, 1, 3) = "+44"
        THEN (IF IsDigits(SubSeq(compact, 4, Len(compact)))
              THEN SubSeq(compact, 4, Len(compact)) ELSE "")
        ELSE IF ~IsDigits(compact) THEN ""
        ELSE IF CharAt(compact, 1) = "0" THEN SubSeq(compact, 2, Len(compact))
        ELSE compact

\* normalise_phone (alias normalise_uk_phone), for numbers written without an
\* exponent; is_possible_number / is_valid_number as the GB mobile range:
\* ten national digits, the first a 7
normalise_phone(raw) ==
    LET cleaned == StrStrip(raw)
        prefixed == IF IsDigits(cleaned) /\ Len(cleaned) > 10 /\ CharAt(cleaned, 1) # "0"
                    THEN "+" \o cleaned ELSE cleaned
        national == ParseGB(prefixed)
    IN  IF cleaned = "" THEN [ e164 |-> raw, is_valid |-> FALSE ]
        ELSE IF Len(national) = 10 /\ CharAt(national, 1) = "7"
        THEN [ e164 |-> "+44" \o national, is_valid |-> TRUE ]
        ELSE [ e164 |-> raw, is_valid |-> FALSE ]

(* ------------------------------------------------------------------ *)
(* app/csv_pipeline.py                                                 *)
(* ------------------------------------------------------------------ *)
\* _load_suppression_list: the non-blank phones, normalised where valid
_load_suppression_list(lines) ==
    { IF normalise_phone(StrStrip(lines[i])).is_valid
      THEN normalise_phone(StrStrip(lines[i])).e164
      ELSE StrStrip(lines[i]) :
        i \in { k \in 1..Len(lines) : StrStrip(lines[k]) # "" } }

Reject(acc, row, reason) ==
    [acc EXCEPT !.rejected = Append(@, [ row |-> row, _reason |-> reason,
                                         _row |-> acc.row_num ]),
                !.row_num = @ + 1]

\* the loop body of ingest_csv with phones compared as written, not normalised
IngestRow_raw_phone(acc, row, suppressed) ==
    LET record_id == StrStrip(row.unique_record_id)
        phone_raw == StrStrip(row.phone)
        normalised == normalise_phone(phone_raw)
    IN  IF record_id = "" THEN Reject(acc, row, "missing_record_id")
        ELSE IF record_id \in acc.seen_ids THEN Reject(acc, row, "duplicate_record_id")
        ELSE IF phone_raw = "" THEN Reject(acc, row, "missing_phone")
        ELSE IF ~normalised.is_valid THEN Reject(acc, row, "invalid_phone")
        ELSE IF phone_raw \in acc.seen_phones THEN Reject(acc, row, "duplicate_phone")
        ELSE IF normalised.e164 \in suppressed THEN Reject(acc, row, "suppressed_dnc")
        ELSE [acc EXCEPT !.valid = Append(@, [ unique_record_id |-> record_id,
                                               phone_raw |-> phone_raw,
                                               phone_e164 |-> normalised.e164 ]),
                         !.seen_phones = @ \cup { phone_raw },
                         !.seen_ids = @ \cup { record_id },
                         !.row_num = @ + 1]

\* the loop body of ingest_csv: validation, deduplication, suppression
IngestRow(acc, row, suppressed) ==
    LET record_id == StrStrip(row.unique_record_id)
        phone_raw == StrStrip(row.phone)
        normalised == normalise_phone(phone_raw)
    IN  IF record_id = "" THEN Reject(acc, row, "missing_record_id")
        ELSE IF record_id \in acc.seen_ids THEN Reject(acc, row, "duplicate_record_id")
        ELSE IF phone_raw = "" THEN Reject(acc, row, "missing_phone")
        ELSE IF ~normalised.is_valid THEN Reject(acc, row, "invalid_phone")
        ELSE IF normalised.e164 \in acc.seen_phones THEN Reject(acc, row, "duplicate_phone")
        ELSE IF normalised.e164 \in suppressed THEN Reject(acc, row, "suppressed_dnc")
        ELSE [acc EXCEPT !.valid = Append(@, [ unique_record_id |-> record_id,
                                               phone_raw |-> phone_raw,
                                               phone_e164 |-> normalised.e164 ]),
                         !.seen_phones = @ \cup { normalised.e164 },
                         !.seen_ids = @ \cup { record_id },
                         !.row_num = @ + 1]

RECURSIVE IngestRows(_, _, _)
IngestRows(acc, rows, suppressed) ==
    IF rows = << >> THEN acc
    ELSE IngestRows(IngestRow(acc, Head(rows), suppressed), Tail(rows), suppressed)

\* ingest_csv(csv_path, suppression_path): (valid, rejected); the header is
\* line 1, so the data rows are numbered from 2
ingest_csv(rows, lines) ==
    IngestRows([ valid |-> << >>, rejected |-> << >>, seen_phones |-> {},
                 seen_ids |-> {}, row_num |-> 2 ],
               rows, _load_suppression_list(lines))

(* ------------------------------------------------------------------ *)
(* app/orchestrator.py: ingest, and the environment                    *)
(* ------------------------------------------------------------------ *)
\* no file has been handed to the program
NoFiles == [ candidates |-> << >>, suppression |-> << >>, rejected |-> << >> ]

RECURSIVE UpsertAll(_, _)
UpsertAll(table, valid) ==
    IF valid = << >> THEN table
    ELSE UpsertAll(upsert_candidate(table, Head(valid).unique_record_id,
                                    Head(valid).phone_e164),
                   Tail(valid))

\* Orchestrator.ingest, once per run and with nothing else running: ingest_csv,
\* the valid candidates persisted, the rejected rows written for audit, the
\* csv_ingested event
Ingest ==
    /\ \A k \in 1..Len(run_log) : run_log[k].action # "csv_ingested"
    /\ LET result == ingest_csv(files.candidates, files.suppression)
       IN  /\ call_records' = UpsertAll(call_records, result.valid)
           /\ files' = [files EXCEPT !.rejected = result.rejected]
    /\ run_log' = log_run_event(run_log, "__system__", "csv_ingested", "")
    /\ UNCHANGED << settings, campaign, loop, inbox, now, schedVars, provider_calls >>

\* the ingest replacing the stored row by a fresh one (INSERT OR REPLACE)
Upsert_replacing(rid, phone) ==
    /\ call_records' = upsert_candidate([call_records EXCEPT ![rid] = NoRow], rid, phone)
    /\ UNCHANGED << settings, files, campaign, loop, inbox, now, run_log, schedVars, provider_calls >>

\* Orchestrator.ingest persists one valid candidate
Upsert(rid, phone) ==
    /\ call_records' = upsert_candidate(call_records, rid, phone)
    /\ UNCHANGED << settings, files, campaign, loop, inbox, now, run_log, schedVars, provider_calls >>

\* the clock advances
Tick ==
    /\ now < MaxTime
    /\ now' = now + 1
    /\ UNCHANGED << settings, files, campaign, loop, inbox, call_records, run_log, schedVars, provider_calls >>

(* ------------------------------------------------------------------ *)
(* app/orchestrator.py: run_continuous                                 *)
(* ------------------------------------------------------------------ *)
\* run_continuous is not running (batches come from run_calls)
NotLooping == [ pc |-> "off", start_time |-> None, max_runtime |-> None ]

\* max_runtime_hours, in ticks: one hour, and a ceiling the run never reaches
MaxRuntimes == { TicksPerHour, 4 * TicksPerHour }

LoopAt(pc) == [loop EXCEPT !.pc = pc]

\* top of `while True`: the runtime ceiling, then the calling window
LoopTop ==
    /\ loop.pc = "top"
    /\ loop' = IF now - loop.start_time >= loop.max_runtime THEN LoopAt("returned")
               ELSE IF ~_in_calling_window THEN LoopAt("waiting")
               ELSE LoopAt("fetch")
    /\ UNCHANGED << settings, files, campaign, inbox, now, call_records, run_log, schedVars, provider_calls >>

\* wait_for_calling_window returns at a wake-up inside the window; `continue`
LoopWindowOpen ==
    /\ loop.pc = "waiting"
    /\ _in_calling_window
    /\ loop' = LoopAt("top")
    /\ UNCHANGED << settings, files, campaign, inbox, now, call_records, run_log, schedVars, provider_calls >>

\* pending = await db.get_pending_records(limit=1); `if not pending: break`
LoopFetch ==
    /\ loop.pc = "fetch"
    /\ loop' = IF get_pending_records(1) = << >> THEN LoopAt("returned")
               ELSE LoopAt("call")
    /\ UNCHANGED << settings, files, campaign, inbox, now, call_records, run_log, schedVars, provider_calls >>

\* batch_stats = await self.scheduler.run_batch(...): entered
LoopRunBatch ==
    /\ loop.pc = "call"
    /\ BatchStart
    /\ loop' = LoopAt("batch")

\* run_batch has returned; the loop sleeps (poll_interval_seconds after a batch
\* that placed nothing, ten seconds otherwise: both far below one tick)
LoopBatchReturned ==
    /\ loop.pc = "batch"
    /\ BatchReturn
    /\ loop' = LoopAt("sleep")

\* asyncio.sleep is over: back to the top
LoopSlept ==
    /\ loop.pc = "sleep"
    /\ loop' = LoopAt("top")
    /\ UNCHANGED << settings, files, campaign, inbox, now, call_records, run_log, schedVars, provider_calls >>

(* ------------------------------------------------------------------ *)
(* app/scheduler.py: wait_for_calling_window, on a clock of 5 s steps   *)
(* ------------------------------------------------------------------ *)
\* the sleeps of wait_for_calling_window are shorter than a tick of the
\* scheduler's clock: where the coroutine is followed sleep by sleep, `now`
\* counts steps of five seconds and the window bounds are given in steps
StepsPerMinute == 12
StepsPerDay == 17280
\* the default window, 07:00 to 22:00
WindowStartStep == 5040
WindowEndStep == 15840
\* `wait_seconds + 5` and the ceiling of 300 seconds
SleepMargin == 1
SleepCeiling == 60

\* _in_calling_window on the clock of steps
InWindowOn(t) ==
    /\ settings.calling_window_start <= t % StepsPerDay
    /\ t % StepsPerDay <= settings.calling_window_end

\* one round of `while not self._in_calling_window()`: next_open, wait_seconds,
\* and the sleep, after which the clock stands at the wake-up
WaitSleep ==
    /\ loop.pc = "waiting"
    /\ ~InWindowOn(now)
    /\ LET today == (now \div StepsPerDay) * StepsPerDay
           next_open == IF now % StepsPerDay >= settings.calling_window_end
                        THEN today + StepsPerDay + settings.calling_window_start
                        ELSE today + settings.calling_window_start
           wait_seconds == next_open - now
       IN  now' = now + Min(wait_seconds + SleepMargin, SleepCeiling)
    /\ UNCHANGED << settings, files, campaign, loop, inbox, call_records, run_log, schedVars, provider_calls >>

\* the loop condition fails: wait_for_calling_window returns
WaitReturn ==
    /\ loop.pc = "waiting"
    /\ InWindowOn(now)
    /\ loop' = LoopAt("top")
    /\ UNCHANGED << settings, files, campaign, inbox, now, call_records, run_log, schedVars, provider_calls >>

(* ------------------------------------------------------------------ *)
(* app/saas_server.py: POST /api/campaigns/{campaign_id}/start          *)
(* ------------------------------------------------------------------ *)
\* One campaign of one user, its candidates the rows of call_records.  The
\* monthly allowance (can_place_call) is cut off from the model: it may run out
\* at any check.
\* start requests and calling tasks followed in one behaviour
MaxRuns == 2

\* no start request was made: the campaign has no assistant yet, no request is
\* waiting for one, and _active_tasks has no entry for it
NoCampaign == [ assistant_id |-> "", creating |-> 0, runs |-> << >>, active |-> 0 ]

\* campaign_id in _active_tasks and not _active_tasks[campaign_id].done()
CampaignRunning ==
    campaign.active # 0 /\ campaign.runs[campaign.active].pc # "done"

\* _active_tasks[campaign_id] = asyncio.create_task(_run())
CreateRun(c) ==
    [c EXCEPT !.runs = Append(@, [ pc |-> "fetch", pending |-> << >>, call |-> 0 ]),
              !.active = Len(c.runs) + 1]

\* start_campaign_calls up to its first suspension after the running check: the
\* answer already_running (nothing changes), the task created at once when the
\* campaign has an assistant, or the await of create_assistant
start_campaign_calls ==
    /\ ~CampaignRunning
    /\ Len(campaign.runs) + campaign.creating < MaxRuns
    /\ campaign' = IF campaign.assistant_id # "" THEN CreateRun(campaign)
                   ELSE [campaign EXCEPT !.creating = @ + 1]
    /\ UNCHANGED << settings, files, loop, inbox, now, call_records, run_log, schedVars, provider_calls >>

\* create_assistant has returned to a waiting request: update_campaign_assistant,
\* then the task is created and stored
AssistantCreated ==
    /\ campaign.creating > 0
    /\ campaign' = CreateRun([campaign EXCEPT !.assistant_id = "asst",
                                               !.creating = @ - 1])
    /\ UNCHANGED << settings, files, loop, inbox, now, call_records, run_log, schedVars, provider_calls >>

\* saas_db.get_pending_candidates: status IN (...) ORDER BY created_at ASC (the
\* limit of 200 is beyond the rows of the model)
get_pending_candidates ==
    SelectSeq(get_all_records, LAMBDA r : call_records[r].status \in RetryableStatuses)

\* _run: pending = await _db.get_pending_candidates(campaign_id)
CampaignFetch(k) ==
    /\ campaign.runs[k].pc = "fetch"
    /\ campaign' = [campaign EXCEPT !.runs[k].pc = "loop",
                                    !.runs[k].pending = get_pending_candidates]
    /\ UNCHANGED << settings, files, loop, inbox, now, call_records, run_log, schedVars, provider_calls >>

\* `for candidate in pending`, the allowance left: _vapi.place_call is invoked
CampaignCall(k) ==
    /\ campaign.runs[k].pc = "loop"
    /\ campaign.runs[k].pending # << >>
    /\ Len(provider_calls) < MaxCalls
    /\ provider_calls' = Append(provider_calls,
           [ rid |-> Head(campaign.runs[k].pending), in_window |-> _in_calling_window,
             state |-> "requested", started_at |-> None ])
    /\ campaign' = [campaign EXCEPT !.runs[k].pc = "calling",
                                    !.runs[k].call = Len(provider_calls) + 1]
    /\ UNCHANGED << settings, files, loop, inbox, now, call_records, run_log, schedVars >>

\* place_call returns: mark_call_started (increment_usage, log_call_event and
\* the pacing sleep touch nothing of the model), then the next candidate
CampaignCallReturns(k) ==
    /\ campaign.runs[k].pc = "calling"
    /\ call_records' = mark_call_started(call_records, Head(campaign.runs[k].pending),
                                         CallIdNames[campaign.runs[k].call], now)
    /\ provider_calls' = [provider_calls EXCEPT ![campaign.runs[k].call].state = "started",
                                                ![campaign.runs[k].call].started_at = now]
    /\ campaign' = [campaign EXCEPT !.runs[k].pc = "loop", !.runs[k].pending = Tail(@)]
    /\ UNCHANGED << settings, files, loop, inbox, now, run_log, schedVars >>

\* place_call raises: `except Exception`, errors += 1, the next candidate
CampaignCallRaises(k) ==
    /\ campaign.runs[k].pc = "calling"
    /\ provider_calls' = [provider_calls EXCEPT ![campaign.runs[k].call].state = "failed"]
    /\ campaign' = [campaign EXCEPT !.runs[k].pc = "loop", !.runs[k].pending = Tail(@)]
    /\ UNCHANGED << settings, files, loop, inbox, now, call_records, run_log, schedVars >>

\* the loop is left, at its end or at `break` when the allowance has run out;
\* the task is done
CampaignLoopEnds(k) ==
    /\ campaign.runs[k].pc = "loop"
    /\ campaign' = [campaign EXCEPT !.runs[k].pc = "done"]
    /\ UNCHANGED << settings, files, loop, inbox, now, call_records, run_log, schedVars, provider_calls >>

(* ------------------------------------------------------------------ *)
(* Specification                                                       *)
(* ------------------------------------------------------------------ *)
\* the state after CallScheduler.__init__ at time t0 on an empty store
InitAt(space, t0) ==
    /\ settings \in space
    /\ now = t0
    /\ call_records = [ r \in RecIds |-> NoRow ]
    /\ run_log = << >>
    /\ calls_this_hour = 0
    /\ calls_today = 0
    /\ hour_start = t0
    /\ day_start = LocalDate(t0)
    /\ sem = settings.max_concurrent_calls
    /\ batch = "idle"
    /\ stats = ZeroStats
    /\ tasks = << >>
    /\ provider_calls = << >>
    /\ inbox = NoEvent
    /\ loop = NotLooping
    /\ files = NoFiles
    /\ campaign = NoCampaign

Init == InitAt(SettingsSpace, 0)

\* the steps of the placements of a batch
PlacementStep ==
    \/ \E i \in 1..Len(tasks) : TaskAcquire(i)
    \/ \E i \in 1..Len(tasks) : TaskRecheck(i)
    \/ \E i \in 1..Len(tasks) : PlaceCallReturns(i)
    \/ \E i \in 1..Len(tasks) : PlaceCallRaises(i)
    \/ \E i \in 1..Len(tasks) : TaskMarkStarted(i)
    \/ \E i \in 1..Len(tasks) : TaskLogPlaced(i)
    \/ \E i \in 1..Len(tasks) : TaskPaced(i)

\* Orchestrator.run_calls: one batch at a time, whenever it is invoked
SchedulerStep ==
    \/ BatchStart /\ UNCHANGED loop
    \/ PlacementStep
    \/ BatchReturn /\ UNCHANGED loop

Next ==
    \/ SchedulerStep
    \/ \E r \in RecIds : Upsert(r, DefaultPhone)
    \/ \E p \in CoreEvents : HandleEndOfCall(p)
    \/ Tick

Spec == Init /\ [][Next]_vars

\* the scheduler on a store whose calls can fail
FaultSettings == { Settings(2, 2, 2, 1, 1, 0) }

InitStoreFaults == InitAt(FaultSettings, 1)

StoreFaultStep ==
    \/ \E i \in 1..Len(tasks) : StoreFailureCaught(i)
    \/ \E i \in 1..Len(tasks) : StoreFailureRaised(i)

NextStoreFaults ==
    \/ SchedulerStep
    \/ StoreFaultStep
    \/ \E r \in RecIds : Upsert(r, DefaultPhone)
    \/ Tick

SpecStoreFaults == InitStoreFaults /\ [][NextStoreFaults]_vars

\* one scheduler inside the window and the provider reporting with analyses
InitWebhook == InitAt(FaultSettings, 1)

NextWebhook ==
    \/ SchedulerStep
    \/ \E r \in RecIds : Upsert(r, DefaultPhone)
    \/ \E p \in RichEvents : HandleEndOfCall(p)

SpecWebhook == InitWebhook /\ [][NextWebhook]_vars

\* the scheduler with the provider's reports travelling to the webhook route
\* while placements are still running
NextDelivery ==
    \/ SchedulerStep
    \/ \E r \in RecIds : Upsert(r, DefaultPhone)
    \/ \E p \in CoreEvents \cup StrayEvents : ReportSent(p)
    \/ vapi_webhook

SpecDelivery == InitWebhook /\ [][NextDelivery]_vars

\* run_continuous from its first statement, at midnight UTC, after the ingest
\* of two records: a retry ceiling below the store's literal, with a runtime
\* ceiling inside and beyond the horizon
ContinuousSettings == { Settings(2, 2, 2, 0, 1, 0) }

InitContinuous ==
    /\ settings \in ContinuousSettings
    /\ now = 0
    /\ call_records =
          upsert_candidate(
              upsert_candidate([ r \in RecIds |-> NoRow ], "R1", DefaultPhone),
              "R2", DefaultPhone)
    /\ run_log = << >>
    /\ calls_this_hour = 0
    /\ calls_today = 0
    /\ hour_start = 0
    /\ day_start = LocalDate(0)
    /\ sem = settings.max_concurrent_calls
    /\ batch = "idle"
    /\ stats = ZeroStats
    /\ tasks = << >>
    /\ provider_calls = << >>
    /\ inbox = NoEvent
    /\ \E m \in MaxRuntimes : loop = [ pc |-> "top", start_time |-> 0, max_runtime |-> m ]
    /\ files = NoFiles
    /\ campaign = NoCampaign

NextContinuous ==
    \/ LoopTop
    \/ LoopWindowOpen
    \/ LoopFetch
    \/ LoopRunBatch
    \/ PlacementStep
    \/ LoopBatchReturned
    \/ LoopSlept
    \/ \E p \in CoreEvents : HandleEndOfCall(p)
    \/ Tick

SpecContinuous == InitContinuous /\ [][NextContinuous]_vars

\* a scheduler started on a store that earlier runs have left: both records
\* ingested in either order, each called up to three times, the last call
\* unreported or reported as unanswered, busy, failed or qualified; the retry
\* ceiling at the store's literal less one, and above it; placements two at a
\* time and one at a time
PendingSettings ==
    { Settings(2, 3, 3, 2, 1, 0), Settings(1, 3, 2, 2, 1, 0), Settings(2, 3, 3, 3, 1, 0) }

Unreported == << >>

PastOutcomes ==
    { << "customer-did-not-answer", Absent >>,
      << "customer-busy", Absent >>,
      << "error", Absent >>,
      << "customer-ended-call",
         Analysis(Block("QUALIFIED", "good fit", "", ""), Absent, "") >> }

\* the provider call id of a record's last call in the earlier runs
PastCallId(rid) == IF rid = "R1" THEN CallIdNames[5] ELSE CallIdNames[6]

RECURSIVE Called(_, _, _)
Called(table, rid, calls) ==
    IF calls = 0 THEN table
    ELSE mark_call_started(Called(table, rid, calls - 1), rid, PastCallId(rid), 0)

RECURSIVE CalledLog(_, _, _)
CalledLog(log, rid, calls) ==
    IF calls = 0 THEN log
    ELSE log_run_event(CalledLog(log, rid, calls - 1), rid, "call_placed", PastCallId(rid))

\* a record's row after `calls` placements and the report of the last one
History(table, rid, calls, outcome) ==
    IF calls = 0 \/ outcome = Unreported
    THEN Called(table, rid, calls)
    ELSE EndOfCallUpdate(Called(table, rid, calls),
                         Event(PastCallId(rid), rid, outcome[1], outcome[2]))

InitPending ==
    /\ settings \in PendingSettings
    /\ now = 1
    /\ \E older \in RecIds, calls1 \in 0..PendingAttemptBound,
          calls2 \in 0..PendingAttemptBound,
          outcome1 \in PastOutcomes \cup { Unreported },
          outcome2 \in PastOutcomes \cup { Unreported } :
          LET younger == CHOOSE r \in RecIds : r # older
              ingested == upsert_candidate(
                              upsert_candidate([ r \in RecIds |-> NoRow ],
                                               older, DefaultPhone),
                              younger, DefaultPhone)
          IN  /\ call_records = History(History(ingested, older, calls1, outcome1),
                                        younger, calls2, outcome2)
              /\ run_log = CalledLog(CalledLog(<< >>, older, calls1), younger, calls2)
    /\ calls_this_hour = 0
    /\ calls_today = 0
    /\ hour_start = 1
    /\ day_start = LocalDate(1)
    /\ sem = settings.max_concurrent_calls
    /\ batch = "idle"
    /\ stats = ZeroStats
    /\ tasks = << >>
    /\ provider_calls = << >>
    /\ inbox = NoEvent
    /\ loop = NotLooping
    /\ files = NoFiles
    /\ campaign = NoCampaign

NextPending ==
    \/ SchedulerStep
    \/ Tick

SpecPending == InitPending /\ [][NextPending]_vars

\* candidate files of up to MaxRows rows: ids present, repeated, padded or
\* missing; phones in national, international and spaced spelling of two
\* numbers, an invalid one, a missing one; with and without a suppression list
CsvRows ==
    [ unique_record_id : { "R1", "R2", " R1", "" },
      phone : { "07700900001", "+447700900001", "07700 900002", "12345", "" } ]

CsvFiles == UNION { [ 1..n -> CsvRows ] : n \in 1..MaxRows }

SuppressionLists == { << >>, << "447700900001", "" >>, << "12345" >> }

InitIngest ==
    /\ settings \in FaultSettings
    /\ now = 1
    /\ call_records = [ r \in RecIds |-> NoRow ]
    /\ run_log = << >>
    /\ calls_this_hour = 0
    /\ calls_today = 0
    /\ hour_start = 1
    /\ day_start = LocalDate(1)
    /\ sem = settings.max_concurrent_calls
    /\ batch = "idle"
    /\ stats = ZeroStats
    /\ tasks = << >>
    /\ provider_calls = << >>
    /\ inbox = NoEvent
    /\ loop = NotLooping
    /\ campaign = NoCampaign
    /\ \E rows \in CsvFiles, lines \in SuppressionLists :
          files = [ candidates |-> rows, suppression |-> lines, rejected |-> << >> ]

NextIngest == Ingest

SpecIngest == InitIngest /\ [][NextIngest]_vars

\* wait_for_calling_window entered from run_continuous outside the default
\* window: just after closing, around midnight, in the night, and from six
\* minutes to one step before the opening
InitWait ==
    /\ settings = [ Settings(1, 1, 1, 0, 1, 0) EXCEPT
                       !.calling_window_start = WindowStartStep,
                       !.calling_window_end = WindowEndStep ]
    /\ now \in { WindowEndStep + 1, StepsPerDay - 1, StepsPerDay, StepsPerDay + 3000 }
                \cup { StepsPerDay + WindowStartStep - k : k \in 1..(6 * StepsPerMinute) }
    /\ call_records = [ r \in RecIds |-> NoRow ]
    /\ run_log = << >>
    /\ calls_this_hour = 0
    /\ calls_today = 0
    /\ hour_start = now
    /\ day_start = now \div StepsPerDay
    /\ sem = settings.max_concurrent_calls
    /\ batch = "idle"
    /\ stats = ZeroStats
    /\ tasks = << >>
    /\ provider_calls = << >>
    /\ inbox = NoEvent
    /\ loop = [ pc |-> "waiting", start_time |-> now, max_runtime |-> StepsPerDay ]
    /\ files = NoFiles
    /\ campaign = NoCampaign

NextWait ==
    \/ WaitSleep
    \/ WaitReturn

SpecWait == InitWait /\ [][NextWait]_vars

\* the calling path of a campaign whose two candidates were uploaded, from
\* midnight UTC on, with the calling rules of the single-tenant run
InitCampaign ==
    /\ settings \in ContinuousSettings
    /\ now = 0
    /\ call_records =
          upsert_candidate(
              upsert_candidate([ r \in RecIds |-> NoRow ], "R1", DefaultPhone),
              "R2", DefaultPhone)
    /\ run_log = << >>
    /\ calls_this_hour = 0
    /\ calls_today = 0
    /\ hour_start = 0
    /\ day_start = LocalDate(0)
    /\ sem = settings.max_concurrent_calls
    /\ batch = "idle"
    /\ stats = ZeroStats
    /\ tasks = << >>
    /\ provider_calls = << >>
    /\ inbox = NoEvent
    /\ loop = NotLooping
    /\ files = NoFiles
    /\ campaign \in { NoCampaign, [ NoCampaign EXCEPT !.assistant_id = "asst" ] }

NextCampaign ==
    \/ start_campaign_calls
    \/ AssistantCreated
    \/ \E k \in 1..Len(campaign.runs) : CampaignFetch(k)
    \/ \E k \in 1..Len(campaign.runs) : CampaignCall(k)
    \/ \E k \in 1..Len(campaign.runs) : CampaignCallReturns(k)
    \/ \E k \in 1..Len(campaign.runs) : CampaignCallRaises(k)
    \/ \E k \in 1..Len(campaign.runs) : CampaignLoopEnds(k)
    \/ Tick

SpecCampaign == InitCampaign /\ [][NextCampaign]_vars

\* webhook_secret: unset, the default placeholder, and a configured secret
SecretSettings ==
    { [ max_concurrent_calls |-> s.max_concurrent_calls,
        max_calls_per_hour |-> s.max_calls_per_hour,
        max_calls_per_day |-> s.max_calls_per_day,
        max_retries |-> s.max_retries,
        retry_delay |-> s.retry_delay,
        calling_window_start |-> s.calling_window_start,
        calling_window_end |-> s.calling_window_end,
        tz_offset |-> s.tz_offset,
        webhook_secret |-> k ] : s \in FaultSettings, k \in { "", "change_me", "s3cret" } }

InitSignature == InitAt(SecretSettings, 1)

\* the scheduler places calls while requests, signed or not, reach the route
NextSignature ==
    \/ SchedulerStep
    \/ \E r \in RecIds : Upsert(r, DefaultPhone)
    \/ \E q \in SignedRequests : ReportSent(q)
    \/ vapi_webhook_with_secret

SpecSignature == InitSignature /\ [][NextSignature]_vars

\* the webhook after one batch has placed a call for the first record: the
\* state CallScheduler leaves when that batch has returned
InitResolver ==
    /\ settings \in FaultSettings
    /\ now = 1
    /\ call_records =
          mark_call_started(
              upsert_candidate([ r \in RecIds |-> NoRow ], "R1", DefaultPhone),
              "R1", CallIdNames[1], 1)
    /\ run_log = log_run_event(<< >>, "R1", "call_placed", CallIdNames[1])
    /\ calls_this_hour = 1
    /\ calls_today = 1
    /\ hour_start = 1
    /\ day_start = LocalDate(1)
    /\ sem = settings.max_concurrent_calls
    /\ batch = "idle"
    /\ stats = ZeroStats
    /\ tasks = << >>
    /\ provider_calls =
          << [ rid |-> "R1", in_window |-> TRUE, state |-> "started", started_at |-> 1 ] >>
    /\ inbox \in ResolverEvents
    /\ loop = NotLooping
    /\ files = NoFiles
    /\ campaign = NoCampaign

\* the provider delivers the report in flight, once or repeatedly
NextResolver == HandleEndOfCall(inbox)

SpecResolver == InitResolver /\ [][NextResolver]_vars

\* files are ingested again, with either phone number for either record, while
\* the report of the first call is delivered
NextUpsert ==
    \/ NextResolver
    \/ \E r \in RecIds, phone \in Phones : Upsert(r, phone)

SpecUpsert == InitResolver /\ [][NextUpsert]_vars

(* ================================================================== *)
(* Properties                                                          *)
(* ================================================================== *)
\* the accepted placements: place_call returned and mark_call_started ran
AcceptedCalls == { c \in 1..Len(provider_calls) : provider_calls[c].state = "started" }

AcceptedFor(r) == { c \in AcceptedCalls : provider_calls[c].rid = r }

\* the calls place_call returned for whose mark_call_started has yet to run
AwaitingMark == { c \in 1..Len(provider_calls) : provider_calls[c].state = "accepted" }

\* C1: with max_concurrent_calls >= 2, no rolling hour holds more accepted
\* placements (place_call followed by mark_call_started) than max_calls_per_hour.
C1_HourlyCapUnderConcurrency ==
    settings.max_concurrent_calls >= 2 =>
        \A t \in 0..MaxTime :
            Cardinality({ c \in AcceptedCalls :
                /\ t <= provider_calls[c].started_at
                /\ provider_calls[c].started_at < t + TicksPerHour })
              <= settings.max_calls_per_hour

\* C2: place_call is never invoked at an instant when the local time is outside
\* [calling_window_start, calling_window_end].
C2_PlaceCallInsideWindow ==
    \A c \in 1..Len(provider_calls) : provider_calls[c].in_window

\* C3: the calls placed within one local calendar day never exceed
\* max_calls_per_day.
C3_DailyCap ==
    \A d \in 0..((MaxTime + TicksPerHour) \div DayTicks) :
        Cardinality({ c \in AcceptedCalls : LocalDate(provider_calls[c].started_at) = d })
          <= settings.max_calls_per_day

\* C4: attempt_count never decreases under ingests, batches and end-of-call
\* events, and it is incremented exactly once per successful place_call made for
\* the record: it always equals the number of the record's calls that place_call
\* returned for and mark_call_started has run for, and every returned call whose
\* mark_call_started is still to run has its placement waiting at that await.
C4_AttemptCountNeverDecreases ==
    \A r \in RecIds :
        call_records[r].exists =>
            /\ call_records'[r].exists
            /\ call_records'[r].attempt_count >= call_records[r].attempt_count

C4_AttemptCountCountsCalls ==
    /\ \A r \in Existing : call_records[r].attempt_count = Cardinality(AcceptedFor(r))
    /\ \A c \in AwaitingMark :
          \E i \in 1..Len(tasks) : tasks[i].pc = "accepted" /\ tasks[i].call = c
    /\ \A c \in 1..Len(provider_calls) : provider_calls[c].rid \in Existing

C4_AttemptCount ==
    [][C4_AttemptCountNeverDecreases]_vars /\ []C4_AttemptCountCountsCalls

\* C4 witness: a record called twice, around an end-of-call event
C4_Witness ==
    \E r \in Existing :
        /\ call_records[r].attempt_count = 2
        /\ Cardinality(AcceptedFor(r)) = 2
        /\ call_records[r].status = "NO_ANSWER"

\* C5: once a record's status is a final disposition, no later step changes it.
C5_FinalStatusKept ==
    [][\A r \in RecIds :
          (call_records[r].exists /\ call_records[r].status \notin RetryableStatuses)
              => call_records'[r].status = call_records[r].status]_vars

\* C6: get_pending_records never returns a record whose attempt_count is
\* greater than max_retries.
C6_PendingWithinRetryCeiling ==
    LET rows == get_pending_records(Cardinality(RecIds))
    IN  \A i \in 1..Len(rows) :
            call_records[rows[i]].attempt_count <= settings.max_retries

\* C7: a record with 0 < attempt_count <= max_retries last called at T is
\* retry-eligible exactly from T + retry_delay on (boundary inclusive).
C7_RetryDelayBoundary ==
    \A r \in Existing :
        ( /\ 0 < call_records[r].attempt_count
          /\ call_records[r].attempt_count <= settings.max_retries
          /\ call_records[r].last_called_at # None )
        => ( _retry_eligible(call_records[r])
               <=> now >= call_records[r].last_called_at + settings.retry_delay )

\* C7 witness: the boundary instant T + retry_delay itself
C7_Witness ==
    \E r \in Existing :
        /\ 0 < call_records[r].attempt_count
        /\ call_records[r].attempt_count <= settings.max_retries
        /\ call_records[r].last_called_at # None
        /\ now = call_records[r].last_called_at + settings.retry_delay
        /\ _retry_eligible(call_records[r])

\* C8: when place_call raises for a record the batch goes on: the failure is
\* counted once under errors, one call_error event is appended, the record is
\* left as it was and the other placements are untouched; the returned stats
\* count every failed placement.
C8_FailureStep ==
    \A i \in 1..Len(tasks) :
        ( /\ Len(tasks') = Len(tasks)
          /\ tasks[i].pc = "calling"
          /\ tasks'[i].pc = "done" )
        => /\ call_records' = call_records
           /\ stats' = [stats EXCEPT !.errors = @ + 1]
           /\ run_log' = Append(run_log, [ unique_record_id |-> tasks[i].rid,
                                           action |-> "call_error",
                                           vapi_call_id |-> "" ])
           /\ batch' = "running"
           /\ \A j \in 1..Len(tasks) : j # i => tasks'[j] = tasks[j]

C8_ReturnedStats ==
    (batch = "running" /\ AllTasksDone) =>
        stats.errors = Cardinality({ i \in 1..Len(tasks) : tasks[i].outcome = "error" })

C8_ProviderErrorIsPerRecord ==
    [][C8_FailureStep]_vars /\ []C8_ReturnedStats

\* C8 witness: a batch about to return with one failed and one placed record
C8_Witness ==
    /\ batch = "running"
    /\ AllTasksDone
    /\ \E i, j \in 1..Len(tasks) :
          /\ tasks[i].outcome = "error"
          /\ tasks[j].outcome = "placed"
    /\ stats.errors = 1
    /\ stats.placed = 1

\* C9: a store failure during a placement (re-fetch, mark_call_started or the
\* audit append) is never swallowed as a per-record error: whenever a placement
\* ended on a store failure, run_batch has raised.
C9_StoreFailureAbortsBatch ==
    \A i \in 1..Len(tasks) :
        tasks[i].outcome \in {"store_error", "raised"} => batch = "raised"

\* the structured disposition string of a report, upper-cased and with spaces
\* and hyphens replaced by underscores
StructuredString(rep) ==
    IF rep[2].present THEN StructuredOf(rep[2]).disposition ELSE ""

NormalizedString ==
    [ rep \in Reports |->
        StrReplace(StrReplace(StrUpper(StructuredString(rep)), " ", "_"), "-", "_") ]

\* C10: when the event's structured disposition string, upper-cased and with
\* spaces and hyphens replaced by underscores, is a Disposition value, handling
\* the event sets the status of the record of that call to this value, whatever
\* the ended-reason and the summary are.
C10_StructuredStep ==
    \A p \in RichEvents :
        LET d == NormalizedString[<< p.endedReason, p.analysis >>]
        IN  (HandleEndOfCall(p) /\ d \in Disposition)
                => \A r \in RowsWithCallId(p.call_id) : call_records'[r].status = d

MappedReasons ==
    [ r \in { "customer-did-not-answer", "customer-did-not-pick-up", "silence-timed-out",
              "customer-busy", "voicemail", "machine-detected",
              "phone-call-provider-closed-websocket", "error", "pipeline-error" } |->
        IF r \in { "customer-did-not-answer", "customer-did-not-pick-up",
                   "silence-timed-out" } THEN "NO_ANSWER"
        ELSE IF r = "customer-busy" THEN "BUSY"
        ELSE IF r \in { "voicemail", "machine-detected" } THEN "VOICEMAIL"
        ELSE "FAILED" ]

NormalEndings ==
    { "customer-ended-call", "assistant-ended-call", "assistant-said-end-call-phrase",
      "max-duration-reached" }

\* per report: what the structured step resolves to, and what the summary
\* heuristic reads in the extracted summary
ParsedOf(rep) == _parse_disposition_from_analysis(rep[2])

InferredOf(rep) ==
    _infer_disposition_from_summary(_extract_analysis_fields(rep[2]).summary)

\* C11: when no structured disposition resolves, an ended-reason of the fixed
\* table sets the status to its mapped disposition, and a normal-ending reason
\* never sets FAILED: the status is what the summary heuristic yields.
C11_MappedStep ==
    LET p == inbox
        rep == << p.endedReason, p.analysis >>
    IN  (HandleEndOfCall(p) /\ ParsedOf(rep) = NoDisposition)
            => \A r \in RowsWithCallId(p.call_id) :
                  /\ p.endedReason \in DOMAIN MappedReasons
                        => call_records'[r].status = MappedReasons[p.endedReason]
                  /\ p.endedReason \in NormalEndings
                        => /\ call_records'[r].status # "FAILED"
                           /\ call_records'[r].status = InferredOf(rep)

C11_EndedReasonTable == [][C11_MappedStep]_vars

\* C11 witness: answering-machine detection recorded as VOICEMAIL although the
\* analysis carried a structured string (one that resolves to nothing) and a
\* summary the heuristic would read as NOT_LOOKING
C11_Witness ==
    \E r \in Existing :
        /\ call_records[r].raw_call_outcome = "machine-detected"
        /\ call_records[r].status = "VOICEMAIL"
        /\ call_records[r].short_summary = "declined politely"

\* the keyword families as the specification lists them, in precedence order
KeywordFamilies ==
    << [ phrases |-> { "not looking", "not interested", "not open", "declined" },
         disposition |-> "NOT_LOOKING" ],
       [ phrases |-> { "actively looking", "open to", "interested in", "looking for" },
         disposition |-> "ACTIVE_LOOKING" ],
       [ phrases |-> { "call back", "callback", "busy", "bad time" },
         disposition |-> "CALL_BACK" ],
       [ phrases |-> { "wrong number", "wrong person" },
         disposition |-> "WRONG_NUMBER" ],
       [ phrases |-> { "remove", "do not call", "unsubscribe" },
         disposition |-> "DNC" ] >>

\* the families a summary matches, by position
FamiliesMatched(summary) ==
    LET s == StrLower(summary)
    IN  { i \in DOMAIN KeywordFamilies :
            \E kw \in KeywordFamilies[i].phrases : Contains(s, kw) }

\* the earliest family matched decides; no family matched: NOT_QUALIFIED
EarliestFamily(summary) ==
    LET matched == FamiliesMatched(summary)
    IN  IF matched = {} THEN "NOT_QUALIFIED"
        ELSE KeywordFamilies[CHOOSE i \in matched : \A j \in matched : i <= j].disposition

\* C12: when neither a structured nor a mapped disposition exists, the status
\* written is that of the earliest keyword family the lower-cased summary
\* matches (negation, interest, reschedule, identity mismatch, opt-out), and
\* NOT_QUALIFIED when it matches none, the empty summary included.
C12_HeuristicStep ==
    LET p == inbox
        rep == << p.endedReason, p.analysis >>
    IN  ( /\ HandleEndOfCall(p)
          /\ ParsedOf(rep) = NoDisposition
          /\ p.endedReason \notin DOMAIN MappedReasons )
            => \A r \in RowsWithCallId(p.call_id) :
                  call_records'[r].status =
                      EarliestFamily(_extract_analysis_fields(p.analysis).summary)

C12_HeuristicPrecedence == [][C12_HeuristicStep]_vars

\* C12 witness: a summary that matches the negation family ("not looking") and
\* the interest family ("looking for") was resolved by the heuristic
C12_Witness ==
    \E r \in Existing :
        /\ call_records[r].raw_call_outcome = "customer-ended-call"
        /\ call_records[r].short_summary
              = "Candidate said they are not looking for new roles"
        /\ Cardinality(FamiliesMatched(call_records[r].short_summary)) > 1
        /\ call_records[r].status = "NOT_LOOKING"

\* C13: whenever the cascade settles ACTIVE_LOOKING for an end-of-call event
\* whose summary contains strong negation language ("not interested"), the
\* status written to the record is NOT_LOOKING.
C13_CrossCheckStep ==
    LET p == inbox
        f == ReportFields(p.endedReason, p.analysis)
    IN  ( /\ HandleEndOfCall(p)
          /\ f.status = "ACTIVE_LOOKING"
          /\ Contains(StrLower(f.short_summary), "not interested") )
            => \A r \in RowsWithCallId(p.call_id) :
                  call_records'[r].status = "NOT_LOOKING"

C13_CrossCheckOverride == [][C13_CrossCheckStep]_vars

\* C14: when the route handles an end-of-call event whose call id matches no
\* record while its metadata names an existing record, that record receives
\* the resolved disposition and the result fields.
C14_FallbackStep ==
    ( /\ vapi_webhook
      /\ inbox.call_id # ""
      /\ RowsWithCallId(inbox.call_id) = {}
      /\ inbox.metadata_record_id \in Existing )
        => LET f == ResolvedReports[<< inbox.endedReason, inbox.analysis >>]
               r == inbox.metadata_record_id
           IN  /\ call_records'[r].status = f.status
               /\ call_records'[r].short_summary = f.short_summary
               /\ call_records'[r].raw_call_outcome = f.raw_call_outcome

C14_MetadataFallbackWrites == [][C14_FallbackStep]_vars

\* C15: once the route has handled an end-of-call event, handling the same
\* event again leaves every record as the first handling left it: status,
\* result fields, attempt_count and provider call id.
C15_RedeliveryStep ==
    vapi_webhook =>
        LET again == IF inbox.call_id # "" /\ RecordFound(inbox)
                     THEN EndOfCallUpdate(call_records', inbox)
                     ELSE call_records'
        IN  \A r \in RecIds : again[r] = call_records'[r]

C15_HandlerIdempotent == [][C15_RedeliveryStep]_vars

\* C15 witness: an event is in flight again for a call whose record already
\* carries that event's results
C15_Witness ==
    /\ inbox # NoEvent
    /\ \E r \in RowsWithCallId(inbox.call_id) :
          /\ call_records[r].attempt_count > 0
          /\ call_records[r].raw_call_outcome = inbox.endedReason
          /\ call_records[r].status
                = ResolvedReports[<< inbox.endedReason, inbox.analysis >>].status
          /\ call_records[r].status \in { "NO_ANSWER", "QUALIFIED" }

\* the rows a table stores under one unique_record_id
RowsOf(table, rid) ==
    { r \in RecIds : table[r].exists /\ table[r].unique_record_id = rid }

RemainingRecords ==
    { r \in Existing : /\ call_records[r].status \in RetryableStatuses
                       /\ call_records[r].attempt_count <= settings.max_retries }

\* C17: run_continuous returns at the first loop-top check at which the elapsed
\* time has reached the runtime ceiling, and at its check of the store it
\* returns when no record remains in a retryable status within the configured
\* retry ceiling, for every configured max_retries.
C17_LoopStep ==
    /\ ( /\ loop.pc = "top" /\ loop'.pc # "top"
         /\ now - loop.start_time >= loop.max_runtime ) => loop'.pc = "returned"
    /\ ( /\ loop.pc = "fetch" /\ loop'.pc # "fetch"
         /\ RemainingRecords = {} ) => loop'.pc = "returned"

C17_ContinuousReturns == [][C17_LoopStep]_vars

\* C18: _in_calling_window is true when the local time of day is exactly
\* window_start, exactly window_end, or between them, and false one clock unit
\* before window_start and one clock unit after window_end.
C18_WindowBoundaries ==
    LET local == LocalTimeOfDay(now)
        window_start == settings.calling_window_start
        window_end == settings.calling_window_end
    IN  /\ local = window_start => _in_calling_window
        /\ local = window_end => _in_calling_window
        /\ (window_start < local /\ local < window_end) => _in_calling_window
        /\ local = window_start - 1 => ~_in_calling_window
        /\ local = window_end + 1 => ~_in_calling_window

\* C18 witness: a batch that began at exactly window_end, in the zone ahead of
\* UTC, turned no record away for the window
C18_Witness ==
    /\ settings.tz_offset > 0
    /\ LocalTimeOfDay(now) = settings.calling_window_end
    /\ batch = "running"
    /\ Len(tasks) > 0
    /\ stats.skipped_window = 0
    /\ \A i \in 1..Len(tasks) : tasks[i].pc = "queued"

\* the limits the program passes: run_continuous and run_batch
FetchLimits == { 1, settings.max_calls_per_day }

Older(r, q) == call_records[r].created_at < call_records[q].created_at

\* at most limit rows, each with a retryable status, in ascending creation order
FetchedInOrder(rows, limit) ==
    /\ Len(rows) <= limit
    /\ \A i \in 1..Len(rows) : call_records[rows[i]].status \in RetryableStatuses
    /\ \A i, j \in 1..Len(rows) : i < j => Older(rows[i], rows[j])

\* the rows are the oldest of the candidates: a candidate left out means the
\* limit was reached with older rows only
OldestOf(rows, limit, candidates) ==
    /\ \A i \in 1..Len(rows) : rows[i] \in candidates
    /\ \A r \in candidates :
          (\A i \in 1..Len(rows) : rows[i] # r)
              => /\ Len(rows) = limit
                 /\ \A i \in 1..Len(rows) : Older(rows[i], r)

\* run_batch creates its placements in the order of the fetch
OfferedInFetchOrder ==
    (batch = "idle" /\ batch' = "running")
        => /\ \A i \in 1..Len(tasks') :
                \E k \in 1..Len(get_pending_records(settings.max_calls_per_day)) :
                    get_pending_records(settings.max_calls_per_day)[k] = tasks'[i].rid
           /\ \A i, j \in 1..Len(tasks') :
                i < j => Older(tasks'[i].rid, tasks'[j].rid)

C19_FetchedOldestPending ==
    \A limit \in FetchLimits :
        /\ FetchedInOrder(get_pending_records(limit), limit)
        /\ OldestOf(get_pending_records(limit), limit,
                    { r \in Existing :
                        /\ call_records[r].status \in RetryableStatuses
                        /\ call_records[r].attempt_count < PendingAttemptBound })

IngestIdOf(rows, k) == StrStrip(rows[k].unique_record_id)
IngestPhoneOf(rows, k) == normalise_phone(StrStrip(rows[k].phone))

\* the data rows (by position) that the rejected list holds, and the others
RejectedRows(res) == { res.rejected[j]._row - 1 : j \in 1..Len(res.rejected) }
ReasonOf(res, k) ==
    res.rejected[CHOOSE j \in 1..Len(res.rejected) : res.rejected[j]._row - 1 = k]._reason
AcceptedBefore(rows, rejected_rows, k) == { a \in 1..(k - 1) : a \notin rejected_rows }

\* every input row is in exactly one of the two results: the rejected list
\* holds distinct rows of the file, the valid list the other rows, in order
IngestPartition(rows, res, rejected_rows) ==
    LET n == Len(rows)
        kept == SelectSeq([ k \in 1..n |-> k ], LAMBDA k : k \notin rejected_rows)
    IN  /\ rejected_rows \subseteq 1..n
        /\ Cardinality(rejected_rows) = Len(res.rejected)
        /\ \A j \in 1..Len(res.rejected) :
              res.rejected[j].row = rows[res.rejected[j]._row - 1]
        /\ Len(res.valid) = Len(kept)
        /\ \A i \in 1..Len(kept) :
              /\ res.valid[i].unique_record_id = IngestIdOf(rows, kept[i])
              /\ res.valid[i].phone_e164 = IngestPhoneOf(rows, kept[i]).e164

\* the valid list: ids pairwise distinct, normalised phones pairwise distinct,
\* no phone of the suppression list
IngestValidList(res, suppressed) ==
    /\ \A i, j \in 1..Len(res.valid) :
          i # j => /\ res.valid[i].unique_record_id # res.valid[j].unique_record_id
                   /\ res.valid[i].phone_e164 # res.valid[j].phone_e164
    /\ \A i \in 1..Len(res.valid) : res.valid[i].phone_e164 \notin suppressed

\* the reasons as stated: whatever else is wrong with the row
ReasonsAsStated(rows, res, rejected_rows, suppressed) ==
    \A k \in 1..Len(rows) :
        LET before == AcceptedBefore(rows, rejected_rows, k)
            phone == IngestPhoneOf(rows, k)
        IN  /\ IngestIdOf(rows, k) \in { IngestIdOf(rows, a) : a \in before }
                  => k \in rejected_rows /\ ReasonOf(res, k) = "duplicate_record_id"
            /\ phone.e164 \in { IngestPhoneOf(rows, a).e164 : a \in before }
                  => k \in rejected_rows /\ ReasonOf(res, k) = "duplicate_phone"
            /\ phone.e164 \in suppressed
                  => k \in rejected_rows /\ ReasonOf(res, k) = "suppressed_dnc"

\* the reasons by precedence: each one for rows the earlier checks let through
ReasonsByPrecedence(rows, res, rejected_rows, suppressed) ==
    \A k \in 1..Len(rows) :
        LET before == AcceptedBefore(rows, rejected_rows, k)
            phone == IngestPhoneOf(rows, k)
            repeated_id == IngestIdOf(rows, k) \in { IngestIdOf(rows, a) : a \in before }
            fresh_id == IngestIdOf(rows, k) # "" /\ ~repeated_id
            repeated_phone == phone.e164 \in { IngestPhoneOf(rows, a).e164 : a \in before }
        IN  /\ repeated_id
                  => k \in rejected_rows /\ ReasonOf(res, k) = "duplicate_record_id"
            /\ (fresh_id /\ phone.is_valid /\ repeated_phone)
                  => k \in rejected_rows /\ ReasonOf(res, k) = "duplicate_phone"
            /\ (fresh_id /\ phone.is_valid /\ ~repeated_phone /\ phone.e164 \in suppressed)
                  => k \in rejected_rows /\ ReasonOf(res, k) = "suppressed_dnc"

C21_PlacementStep ==
    \A i \in 1..Len(tasks) :
        ( /\ Len(tasks') = Len(tasks)
          /\ tasks[i].pc = "recheck"
          /\ tasks'[i].pc = "calling" )
        => call_records[tasks[i].rid].attempt_count <= settings.max_retries

C21_AttemptsBounded ==
    \A r \in Existing : call_records[r].attempt_count <= settings.max_retries + 1

C21_RetryCeiling == [][C21_PlacementStep]_vars /\ []C21_AttemptsBounded

\* C21 witness: a batch that fetched a record in a retryable status with
\* max_retries + 1 attempts, inside the window, with budget left and the retry
\* delay elapsed, and created no placement for it
C21_Witness ==
    \E r \in Existing :
        /\ call_records[r].attempt_count = settings.max_retries + 1
        /\ call_records[r].status = "NO_ANSWER"
        /\ now - call_records[r].last_called_at >= settings.retry_delay
        /\ _in_calling_window
        /\ batch = "running"
        /\ calls_this_hour < settings.max_calls_per_hour
        /\ calls_today < settings.max_calls_per_day
        /\ stats.skipped_throttle >= 1
        /\ \A i \in 1..Len(tasks) : tasks[i].rid # r

\* C22: for every configured max_retries, a record in status NO_ANSWER, BUSY or
\* FAILED with attempt_count <= max_retries is selected by get_pending_records
\* (with a limit that leaves no record out), so that a later batch can place
\* another call for it.
C22_RetryableStaysSelected ==
    \A r \in Existing :
        ( /\ call_records[r].status \in { "NO_ANSWER", "BUSY", "FAILED" }
          /\ call_records[r].attempt_count <= settings.max_retries )
        => \E i \in 1..Len(get_pending_records(Cardinality(RecIds))) :
              get_pending_records(Cardinality(RecIds))[i] = r

\* C23: when the status re-read inside the limiter, just before the provider
\* call, is a final disposition, the placement ends without error: place_call is
\* not invoked, the record (attempt_count, last_called_at, provider call id
\* included) is unchanged, no audit event is appended, the throttle counters are
\* unchanged and none of the four stats counters is incremented.
C23_AbandonStep ==
    \A i \in 1..Len(tasks) :
        ( /\ Len(tasks') = Len(tasks)
          /\ tasks[i].pc = "recheck"
          /\ tasks'[i].pc # "recheck"
          /\ call_records[tasks[i].rid].exists
          /\ call_records[tasks[i].rid].status \notin RetryableStatuses )
        => /\ tasks'[i].pc = "done"
           /\ tasks'[i].outcome \notin { "error", "store_error", "raised" }
           /\ provider_calls' = provider_calls
           /\ call_records' = call_records
           /\ run_log' = run_log
           /\ calls_this_hour' = calls_this_hour
           /\ calls_today' = calls_today
           /\ stats' = stats
           /\ batch' = batch

C23_RecheckAbandons == [][C23_AbandonStep]_vars

\* C23 witness: a placement abandoned for a record that an end-of-call event
\* resolved after the batch had fetched it
C23_Witness ==
    \E i \in 1..Len(tasks) :
        /\ tasks[i].outcome = "already_resolved"
        /\ tasks[i].call = 0
        /\ call_records[tasks[i].rid].status = "QUALIFIED"

\* C24: after the counter refresh at the start of every run_batch,
\* calls_this_hour equals the store's count of calls placed in the preceding
\* rolling hour and calls_today equals the store's count of calls placed since
\* local midnight, also in the batch where the in-memory hour or day window has
\* rolled over.
C24_RefreshStep ==
    (batch = "idle" /\ batch' = "running")
        => /\ calls_this_hour' = get_calls_in_window(LocalDigits(now - TicksPerHour), TRUE)
           /\ calls_today' = get_calls_in_window(LocalDate(now) * DayTicks, FALSE)

C24_CountersFromStore == [][C24_RefreshStep]_vars

\* the placements inside the concurrency limiter: from acquiring it, through the
\* provider call and the store updates, to the end of the pacing delay
InsideLimiter ==
    { i \in 1..Len(tasks) :
        tasks[i].pc \in { "recheck", "calling", "accepted", "marked", "pacing" } }

\* C25: at every instant the number of placements inside the concurrency
\* limiter is at most max_concurrent_calls, however many tasks run_batch created.
C25_BoundedFanOut ==
    /\ Cardinality(InsideLimiter) <= settings.max_concurrent_calls
    /\ sem = settings.max_concurrent_calls - Cardinality(InsideLimiter)

\* C25 witness: more tasks than slots, the limiter full and a task waiting
C25_Witness ==
    /\ Len(tasks) > settings.max_concurrent_calls
    /\ Cardinality(InsideLimiter) = settings.max_concurrent_calls
    /\ \E i \in 1..Len(tasks) : tasks[i].pc = "queued"
    /\ \E i \in InsideLimiter : tasks[i].pc = "calling"

\* the next window-open instant: today's start while the window has not opened
\* yet, tomorrow's start once it has closed
NextWindowOpen(t) ==
    LET midnight == (t \div StepsPerDay) * StepsPerDay
    IN  IF t % StepsPerDay < WindowStartStep THEN midnight + WindowStartStep
        ELSE midnight + StepsPerDay + WindowStartStep

\* C26: wait_for_calling_window returns only when the clock is inside the
\* calling window, and while it waits every sleep lasts at most 5 minutes and
\* ends no later than the next window-open instant.
C26_WaitStep ==
    /\ (loop.pc = "waiting" /\ loop'.pc # "waiting")
          => (now % StepsPerDay >= WindowStartStep /\ now % StepsPerDay <= WindowEndStep)
    /\ now' # now
          => /\ now' - now <= 5 * StepsPerMinute
             /\ now' <= NextWindowOpen(now)

C26_WaitNeverOversleeps == [][C26_WaitStep]_vars

\* the call_placed events recorded for a record, and those of the calls of the
\* batch in progress
PlacedEventsFor(r) ==
    { k \in 1..Len(run_log) :
        run_log[k].action = "call_placed" /\ run_log[k].unique_record_id = r }

PlacedEventsOfBatch ==
    { k \in 1..Len(run_log) :
        /\ run_log[k].action = "call_placed"
        /\ \E i \in 1..Len(tasks) :
              tasks[i].call # 0 /\ CallIdNames[tasks[i].call] = run_log[k].vapi_call_id }

\* C27: the run log is append-only (every step leaves the rows it found, in
\* place); and, the store not failing, between batches every record's
\* attempt_count equals the number of call_placed events recorded for it and a
\* batch's stats placed equals the number of call_placed events it appended.
C27_AppendOnlyStep ==
    /\ Len(run_log') >= Len(run_log)
    /\ SubSeq(run_log', 1, Len(run_log)) = run_log

C27_LogCountsPlacements ==
    /\ batch = "idle" =>
          \A r \in Existing : call_records[r].attempt_count = Cardinality(PlacedEventsFor(r))
    /\ (batch = "running" /\ AllTasksDone) =>
          stats.placed = Cardinality(PlacedEventsOfBatch)

C27_AuditTrail == [][C27_AppendOnlyStep]_vars /\ []C27_LogCountsPlacements

\* C27 witness: between batches, a record called twice with two call_placed
\* events, in a log that also holds a call_error event
C27_Witness ==
    /\ batch = "idle"
    /\ \E r \in Existing :
          /\ call_records[r].attempt_count = 2
          /\ Cardinality(PlacedEventsFor(r)) = 2
    /\ \E k \in 1..Len(run_log) : run_log[k].action = "call_error"

\* the placements of the batch that ended with a given outcome
Outcomes(o) == { i \in 1..Len(tasks) : tasks[i].outcome = o }

\* the records the batch skipped before creating placements
SkippedBeforeTasks(st, tk) ==
    st.skipped_window + st.skipped_throttle
        - Cardinality({ i \in 1..Len(tk) :
                          tk[i].outcome \in { "skipped_window", "skipped_throttle" } })

\* C28: run_batch returns its stats whenever the store does not fail, and every
\* record it fetched is counted in exactly one of placed, skipped_window,
\* skipped_throttle, errors, except a record abandoned by the idempotency
\* recheck, which is counted in none; so the four counters sum to at most the
\* number of fetched records.
C28_CountingStep ==
    /\ (batch = "idle" /\ batch' = "running")
          => /\ stats'.placed = 0 /\ stats'.errors = 0
             /\ stats'.skipped_window + stats'.skipped_throttle + Len(tasks')
                    = Len(get_pending_records(settings.max_calls_per_day))
    /\ (batch = "running" /\ batch' = "running")
          => /\ Len(tasks') = Len(tasks)
             /\ SkippedBeforeTasks(stats', tasks') = SkippedBeforeTasks(stats, tasks)

C28_EveryRecordCountedOnce ==
    batch = "running" =>
        /\ stats.placed = Cardinality(Outcomes("placed"))
        /\ stats.errors = Cardinality(Outcomes("error"))
        /\ stats.skipped_window >= Cardinality(Outcomes("skipped_window"))
        /\ stats.skipped_throttle >= Cardinality(Outcomes("skipped_throttle"))
        /\ stats.placed + stats.skipped_window + stats.skipped_throttle + stats.errors
              = SkippedBeforeTasks(stats, tasks)
                  + Cardinality({ i \in 1..Len(tasks) :
                       tasks[i].outcome \notin { "", "already_resolved" } })
        /\ \A i \in 1..Len(tasks) :
              tasks[i].outcome \in { "", "placed", "error", "skipped_window",
                                     "skipped_throttle", "already_resolved" }
        /\ \A i \in 1..Len(tasks) : tasks[i].pc = "done" => tasks[i].outcome # ""

C28_BatchGoesOn ==
    batch = "running" =>
        IF AllTasksDone THEN ENABLED BatchReturn ELSE ENABLED PlacementStep

C28_StatsAlwaysReturned ==
    /\ [][C28_CountingStep]_vars
    /\ []C28_EveryRecordCountedOnce
    /\ []C28_BatchGoesOn

\* C28 witness: a batch about to return that fetched two records, placed a call
\* for one and abandoned the other at the idempotency recheck
C28_Witness ==
    /\ batch = "running"
    /\ AllTasksDone
    /\ Len(tasks) = 2
    /\ Outcomes("already_resolved") # {}
    /\ Outcomes("placed") # {}
    /\ stats = [ ZeroStats EXCEPT !.placed = 1 ]

\* an event that resolves to no record: no call id, or a call id and a metadata
\* correlation id that both match no record
Unresolvable(p) ==
    \/ p.call_id = ""
    \/ \A r \in Existing :
          call_records[r].vapi_call_id # p.call_id /\ r # p.metadata_record_id

\* C29: an end-of-call event that carries no call id, or whose call id and
\* metadata correlation id both match no record, changes no record and no
\* run-log row, and the webhook request is answered as a success.
C29_DropStep ==
    (inbox # NoEvent /\ Unresolvable(inbox) /\ inbox' # inbox)
        => /\ call_records' = call_records
           /\ run_log' = run_log
           /\ inbox' = NoEvent

C29_RequestAnswered == inbox # NoEvent => ENABLED vapi_webhook

C29_UnresolvableDropped == [][C29_DropStep]_vars /\ []C29_RequestAnswered

\* C29 witness: an event without call id, whose metadata names a stored record
\* that has a call in progress, is in flight to the route
C29_Witness ==
    /\ inbox.call_id = ""
    /\ inbox.metadata_record_id \in Existing
    /\ call_records[inbox.metadata_record_id].vapi_call_id # ""
    /\ call_records[inbox.metadata_record_id].status = "PENDING"

\* the calls placed in the hour before t, and on the local day of t
PlacedInHourBefore(t) ==
    { c \in AcceptedCalls :
        t - TicksPerHour < provider_calls[c].started_at /\ provider_calls[c].started_at <= t }

PlacedOnDayOf(t) ==
    { c \in AcceptedCalls : LocalDate(provider_calls[c].started_at) = LocalDate(t) }

\* C30: the campaign calling path applies the policy of run_batch: it invokes
\* place_call only inside the calling window, with fewer than max_calls_per_hour
\* calls in the past hour and fewer than max_calls_per_day on the day, only
\* when the record's retry delay has elapsed, and never for a record whose
\* attempt_count exceeds max_retries.
C30_CampaignCallStep ==
    \A k \in 1..Len(campaign.runs) :
        ( /\ Len(campaign'.runs) = Len(campaign.runs)
          /\ campaign.runs[k].pc = "loop"
          /\ campaign'.runs[k].pc = "calling" )
        => LET record == call_records[Head(campaign.runs[k].pending)]
           IN  /\ settings.calling_window_start <= LocalTimeOfDay(now)
               /\ LocalTimeOfDay(now) <= settings.calling_window_end
               /\ Cardinality(PlacedInHourBefore(now)) < settings.max_calls_per_hour
               /\ Cardinality(PlacedOnDayOf(now)) < settings.max_calls_per_day
               /\ record.attempt_count <= settings.max_retries
               /\ (record.attempt_count > 0 /\ record.last_called_at # None)
                     => now - record.last_called_at >= settings.retry_delay

C30_CampaignAppliesPolicy == [][C30_CampaignCallStep]_vars

\* the structured block a payload carries, under whichever key it sits
CarriedBlock(analysis) ==
    IF ~analysis.present THEN EmptyBlock
    ELSE IF analysis.structuredData.present THEN analysis.structuredData
    ELSE IF analysis.structured_data.present THEN analysis.structured_data
    ELSE EmptyBlock

\* the summary the claim describes: structured, else top-level, else the
\* ended-reason line, else empty
SummaryChain(p) ==
    IF CarriedBlock(p.analysis).summary # "" THEN CarriedBlock(p.analysis).summary
    ELSE IF p.analysis.present /\ p.analysis.summary # "" THEN p.analysis.summary
    ELSE IF p.endedReason # "" THEN "Call ended: " \o p.endedReason
    ELSE ""

\* C31: the summary stored for an end-of-call event is the structured summary
\* when non-empty, else the analysis's top-level summary when non-empty, else
\* "Call ended: {ended_reason}" when the ended-reason is non-empty, else the
\* empty string; location and availability are those of the structured block
\* and default to the empty string.
C31_SummaryStep ==
    HandleEndOfCall(inbox) =>
        \A r \in RowsWithCallId(inbox.call_id) :
            /\ call_records'[r].short_summary = SummaryChain(inbox)
            /\ call_records'[r].extracted_location = CarriedBlock(inbox.analysis).location
            /\ call_records'[r].extracted_availability =
                  CarriedBlock(inbox.analysis).availability

C31_SummaryAndFields == [][C31_SummaryStep]_vars

\* a report with both summaries was stored: the structured one won, and the
\* block's location and availability were kept
C31_Witness ==
    /\ inbox.analysis.present
    /\ inbox.analysis.summary = "spoke briefly"
    /\ \E r \in Existing :
        /\ call_records[r].short_summary = "no licence"
        /\ call_records[r].extracted_location = "Hull"
        /\ call_records[r].extracted_availability = "next month"

\* the same analysis with its structured block moved to the other key
UnderOtherKey(analysis) ==
    IF ~analysis.present THEN analysis
    ELSE [analysis EXCEPT !.structuredData = analysis.structured_data,
                          !.structured_data = analysis.structuredData]

OneBlock(analysis) ==
    analysis.present => ~(analysis.structuredData.present /\ analysis.structured_data.present)

\* C32: the disposition resolved and the summary, location and availability
\* extracted from an analysis are the same whether its structured block sits
\* under the key structuredData or under the key structured_data: handling an
\* event writes what handling the event with the block under the other key
\* would write.
C32_KeyStep ==
    (HandleEndOfCall(inbox) /\ OneBlock(inbox.analysis)) =>
        call_records' =
            EndOfCallUpdate(call_records,
                            [inbox EXCEPT !.analysis = UnderOtherKey(inbox.analysis)])

C32_EitherKey == [][C32_KeyStep]_vars

\* a report whose block sat under structured_data was stored with the block's
\* disposition and fields
C32_Witness ==
    /\ inbox.analysis.present
    /\ inbox.analysis.structured_data.present
    /\ ~inbox.analysis.structuredData.present
    /\ \E r \in Existing :
        /\ call_records[r].status = "NOT_QUALIFIED"
        /\ call_records[r].short_summary = "no licence"
        /\ call_records[r].extracted_location = "Hull"

\* C33: after an end-of-call event has been applied to a record, the record's
\* status is a terminal disposition: no payload, whatever its structured
\* disposition string, sets or resets the status to PENDING.
C33_TerminalStep ==
    \A p \in RichEvents :
        HandleEndOfCall(p) =>
            \A r \in RowsWithCallId(p.call_id) : call_records'[r].status # "PENDING"

C33_EventLeavesTerminalStatus == [][C33_TerminalStep]_vars

\* the event reports an earlier attempt of a record whose current call id is
\* that of a later attempt
Superseded(p) ==
    \E c \in LiveCalls, later \in AcceptedCalls :
        /\ CallIdNames[c] = p.call_id
        /\ later > c
        /\ provider_calls[later].rid = provider_calls[c].rid
        /\ call_records[provider_calls[c].rid].vapi_call_id = CallIdNames[later]

C35_ReingestStep ==
    \A r \in RecIds, phone \in Phones :
        (Upsert(r, phone) /\ call_records[r].exists) =>
            /\ call_records'[r] = [call_records[r] EXCEPT !.phone_e164 = phone]
            /\ \A o \in RecIds \ {r} : call_records'[o] = call_records[o]

C35_ReingestKeepsProgress == [][C35_ReingestStep]_vars

\* a record that was called and whose result is stored was ingested again with
\* another phone number and still holds its result and its attempt
C35_Witness ==
    /\ call_records["R1"].exists
    /\ call_records["R1"].phone_e164 # DefaultPhone
    /\ call_records["R1"].status = "QUALIFIED"
    /\ call_records["R1"].attempt_count = 1
    /\ call_records["R1"].last_called_at = 1
    /\ call_records["R1"].vapi_call_id = CallIdNames[1]
    /\ call_records["R1"].extracted_location = "Leeds"

\* C36: the substring fallback never returns a disposition of the opposite
\* meaning: a normalized structured disposition string that contains
\* NOT_QUALIFIED never resolves to QUALIFIED, and one that contains NOT_LOOKING
\* never resolves to ACTIVE_LOOKING.
C36_OppositeStep ==
    HandleEndOfCall(inbox) =>
        LET disp_str == NormalizeDisposition(CarriedBlock(inbox.analysis).disposition)
        IN  \A r \in RowsWithCallId(inbox.call_id) :
                /\ Contains(disp_str, "NOT_QUALIFIED")
                      => call_records'[r].status # "QUALIFIED"
                /\ Contains(disp_str, "NOT_LOOKING")
                      => call_records'[r].status # "ACTIVE_LOOKING"

C36_NoOppositeDisposition == [][C36_OppositeStep]_vars

\* the background calling tasks of the campaign that have not finished
ActiveRuns == { k \in 1..Len(campaign.runs) : campaign.runs[k].pc # "done" }

\* C37: a campaign has at most one background calling task active at a time,
\* also when two start requests are handled concurrently (the second observes
\* the first's task and returns already_running), so no candidate is called by
\* two tasks at once.
C37_OneTaskPerCampaign == Cardinality(ActiveRuns) <= 1

\* a webhook secret is configured: non-empty and not the placeholder
SecretConfigured ==
    settings.webhook_secret # "" /\ settings.webhook_secret # "change_me"

\* C38: with a webhook secret configured, an end-of-call request changes a
\* record only if it carries a signature header equal to the HMAC-SHA256 of its
\* body under the secret: a request with a wrong signature, or with no
\* signature header, changes no record.
C38_SignatureStep ==
    ( /\ inbox # NoEvent
      /\ inbox' = NoEvent
      /\ SecretConfigured
      /\ inbox.x_vapi_signature # HmacSha256(settings.webhook_secret, PayloadOf(inbox)) )
        => call_records' = call_records

C38_OnlySignedRequestsWrite == [][C38_SignatureStep]_vars

====
